---- MODULE Spec2Model ----
(***************************************************************************)
(* A model of the realtime engine of go-sequence: the per-device event     *)
(* queues (drum, piano roll, metropolix), the quantized pattern switch,    *)
(* the queue manager and the MIDI dispatcher.                              *)
(***************************************************************************)
EXTENDS Integers, Sequences, FiniteSets, TLC

(***************************************************************************)
(* Program constants                                                       *)
(***************************************************************************)
PPQ == 960
NumPatterns == 128
TicksPerStep == PPQ \div 4
LookAheadTicks == PPQ \div 2

(***************************************************************************)
(* Bounds of the model                                                     *)
(***************************************************************************)
MaxPattern == 1
MaxLane == 1
MaxLaneLen == 2
MaxSteps == 8
MaxSent == 5
MaxNotes == 2
MaxBeats == 2
MaxStage == 1
MaxDraws == 2
MaxApply == 8
MaxReset == 4
MaxRootShift == 1
MaxEdits == 1
MaxPlays == 2
MaxLaunches == 1
MaxRatchets == 2
MaxGen == 2
MaxSwitches == 2
MaxKeys == 3
MaxCallers == 3

PatternIds == 0..MaxPattern
LaneIds == 0..MaxLane
HorizonTick == MaxSteps * TicksPerStep

(***************************************************************************)
(* Events                                                                  *)
(***************************************************************************)
NoteOn == "NoteOn"
NoteOff == "NoteOff"
PitchBend == "PitchBend"
Trigger == "Trigger"

\* midi.Event; src is a ghost field naming the pattern, and for the
\* metropolix the stage and the stage occurrence within the cycle, the
\* event was generated from.
Src(pat, stage, occ) == [pat |-> pat, stage |-> stage, occ |-> occ]

Event(tick, type, note, vel, bend, src) ==
    [Tick |-> tick, Type |-> type, Note |-> note, Velocity |-> vel,
     BendValue |-> bend, src |-> src]

RECURSIVE SortedFrom(_, _)
SortedFrom(q, i) ==
    IF i >= Len(q) THEN TRUE
    ELSE q[i].Tick <= q[i + 1].Tick /\ SortedFrom(q, i + 1)

IsSortedByTick(q) == SortedFrom(q, 1)

RECURSIVE SelectTickBelow(_, _)
SelectTickBelow(q, bound) ==
    IF q = <<>> THEN <<>>
    ELSE IF Head(q).Tick < bound
         THEN <<Head(q)>> \o SelectTickBelow(Tail(q), bound)
         ELSE SelectTickBelow(Tail(q), bound)

VARIABLES
    playing,        \* S.Playing
    Tick,           \* S.Tick, the global tick (in whole steps)
    sent,           \* ghost: events popped by the dispatcher, in order
    lastOp,         \* ghost: the last FillUntil round, if nothing has
                    \* changed the patterns to play since
    switch,         \* ghost: the pattern switch requested by QueuePattern
    trackType,      \* TrackState.Type of tracks 0, 1 and 2
    muted,          \* TrackState.Muted of tracks 0, 1 and 2
    lastCall,       \* ghost: the last Play or Stop call and what it did
    edits,          \* ghost: pattern edits made during playback
    plays,          \* ghost: how often Play was pressed
    launches,       \* ghost: how many patterns were launched
    drumPatterns,   \* DrumState.Patterns
    drumPlaying,    \* DrumState.PlayingPatternIdx
    drumNext,       \* DrumState.Next
    drumEditing,    \* DrumState.EditingPatternIdx
    schedule,       \* DrumDevice.schedule
    patternDirty,   \* DrumDevice.patternDirty
    drumQueue,      \* DrumDevice.queue
    pianoPatterns,  \* PianoState.Patterns
    pianoPattern,   \* PianoState.Pattern
    pianoNext,      \* PianoState.Next
    pianoEditing,   \* PianoState.Editing
    pianoQueue,     \* PianoRollDevice.queue
    pianoQueuedUntilTick,   \* PianoRollDevice.queuedUntilTick
    pianoPatternStartTick,  \* PianoRollDevice.patternStartTick
    pianoNextPatternTick,   \* PianoRollDevice.nextPatternTick
    metroPatterns,  \* MetropolixState.Patterns
    metroPattern,   \* MetropolixState.Pattern
    metroNext,      \* MetropolixState.Next
    metroEditing,   \* MetropolixState.Editing
    metroSelected,  \* MetropolixState.Selected
    metroRun,       \* MetropolixState playback position and accumulators:
                    \* Stage, Direction, Accum, AccumCount, AccumDir
    metroQueue,     \* MetropolixDevice.queue
    metroQueuedUntilTick,   \* MetropolixDevice.queuedUntilTick
    metroPatternStartTick,  \* MetropolixDevice.patternStartTick
    metroNextPatternTick,   \* MetropolixDevice.nextPatternTick
    genLog          \* ghost: what the last GeneratePattern / applyAccumulator
                    \* calls were given and produced

sysVars == <<playing, Tick, sent, lastOp, switch, trackType, muted, lastCall,
             edits, plays, launches>>
drumVars == <<drumPatterns, drumPlaying, drumNext, drumEditing, schedule,
              patternDirty, drumQueue>>
pianoVars == <<pianoPatterns, pianoPattern, pianoNext, pianoEditing,
               pianoQueue, pianoQueuedUntilTick, pianoPatternStartTick,
               pianoNextPatternTick>>
metroVars == <<metroPatterns, metroPattern, metroNext, metroEditing,
               metroSelected, metroRun, metroQueue, metroQueuedUntilTick,
               metroPatternStartTick, metroNextPatternTick>>
vars == <<sysVars, drumVars, pianoVars, metroVars, genLog>>

NoOp == [op |-> "none"]

(***************************************************************************)
(* Drum device                                                             *)
(***************************************************************************)
\* DrumPatternState.MasterLength
RECURSIVE MasterLengthFrom(_, _, _)
MasterLengthFrom(pat, i, max) ==
    IF i > MaxLane THEN max
    ELSE MasterLengthFrom(pat, i + 1,
                          IF pat[i].Length > max THEN pat[i].Length ELSE max)

MasterLength(pat) == MasterLengthFrom(pat, 0, 1)

\* DrumDevice.GeneratePattern: steps outermost, lanes innermost
RECURSIVE DrumGenerateFrom(_, _, _, _, _)
DrumGenerateFrom(pat, patternNum, startTick, step, noteIdx) ==
    IF step >= MasterLength(pat) THEN <<>>
    ELSE IF noteIdx > MaxLane
         THEN DrumGenerateFrom(pat, patternNum, startTick, step + 1, 0)
         ELSE LET noteStep == step % pat[noteIdx].Length
                  s == pat[noteIdx].Steps[noteStep]
                  stepTick == startTick + step * TicksPerStep
              IN  (IF s.Active
                   THEN <<Event(stepTick, Trigger, noteIdx, s.Velocity, 0,
                                Src(patternNum, -1, -1))>>
                   ELSE <<>>)
                  \o DrumGenerateFrom(pat, patternNum, startTick, step,
                                      noteIdx + 1)

DrumGeneratePattern(pats, patternNum, startTick) ==
    DrumGenerateFrom(pats[patternNum], patternNum, startTick, 0, 0)

drumPatternLengthTicks(pats, patternNum) ==
    MasterLength(pats[patternNum]) * (PPQ \div 4)

RECURSIVE SumPatternTicks(_, _)
SumPatternTicks(pats, ps) ==
    IF ps = <<>> THEN 0
    ELSE drumPatternLengthTicks(pats, Head(ps)) + SumPatternTicks(pats, Tail(ps))

scheduleEndTick(pats, sch) == sch.StartTick + SumPatternTicks(pats, sch.Patterns)

\* DrumDevice.extendSchedule
RECURSIVE extendSchedule(_, _, _)
extendSchedule(pats, sch, targetTick) ==
    IF scheduleEndTick(pats, sch) < targetTick
    THEN LET lastPat == IF Len(sch.Patterns) > 0
                        THEN sch.Patterns[Len(sch.Patterns)]
                        ELSE 0
         IN  extendSchedule(pats,
                 [sch EXCEPT !.Patterns = Append(sch.Patterns, lastPat)],
                 targetTick)
    ELSE sch

\* a trim that drops every slot begun before the playhead
RECURSIVE trimScheduleBegun(_, _, _)
trimScheduleBegun(pats, sch, currentTick) ==
    IF Len(sch.Patterns) > 1
    THEN LET firstPatLen == drumPatternLengthTicks(pats, sch.Patterns[1])
         IN  IF sch.StartTick < currentTick
             THEN trimScheduleBegun(pats,
                      [StartTick |-> sch.StartTick + firstPatLen,
                       Patterns |-> Tail(sch.Patterns)],
                      currentTick)
             ELSE sch
    ELSE sch

RECURSIVE trimSchedule(_, _, _)
trimSchedule(pats, sch, currentTick) ==
    IF Len(sch.Patterns) > 1
    THEN LET firstPatLen == drumPatternLengthTicks(pats, sch.Patterns[1])
         IN  IF sch.StartTick + firstPatLen <= currentTick
             THEN trimSchedule(pats,
                      [StartTick |-> sch.StartTick + firstPatLen,
                       Patterns |-> Tail(sch.Patterns)],
                      currentTick)
             ELSE sch
    ELSE sch

scheduleContainsDirty(sch, dirty) ==
    \E i \in 1..Len(sch.Patterns) : sch.Patterns[i] \in dirty

RECURSIVE GenerateSchedule(_, _, _)
GenerateSchedule(pats, ps, tick) ==
    IF ps = <<>> THEN <<>>
    ELSE DrumGeneratePattern(pats, Head(ps), tick)
         \o GenerateSchedule(pats, Tail(ps),
                             tick + drumPatternLengthTicks(pats, Head(ps)))

\* DrumDevice.syncQueueToSchedule: the queue, playing index and dirty
\* flags it leaves behind
syncQueueToSchedule(pats, sch, dirty, queue, playingIdx) ==
    IF ~scheduleContainsDirty(sch, dirty)
    THEN [queue |-> queue, playing |-> playingIdx, dirty |-> dirty]
    ELSE [queue |-> GenerateSchedule(pats, sch.Patterns, sch.StartTick),
          playing |-> IF Len(sch.Patterns) > 0 THEN sch.Patterns[1]
                      ELSE playingIdx,
          dirty |-> {}]

ScheduledSet(sch) == {sch.Patterns[i] : i \in 1..Len(sch.Patterns)}

\* DrumDevice.FillUntil
DrumFillUntil(tick) ==
    LET trimmed == trimSchedule(drumPatterns, schedule, Tick)
        sch == extendSchedule(drumPatterns, trimmed, tick)
        dirty == patternDirty \cup ScheduledSet(sch)
        r == syncQueueToSchedule(drumPatterns, sch, dirty, drumQueue,
                                 drumPlaying)
    IN  /\ schedule' = sch
        /\ drumQueue' = r.queue
        /\ drumPlaying' = r.playing
        /\ patternDirty' = r.dirty
        /\ UNCHANGED <<drumPatterns, drumNext, drumEditing>>

\* a ClearQueue that keeps the schedule
DrumClearQueueKeepsSchedule ==
    /\ drumQueue' = <<>>
    /\ patternDirty' = {}
    /\ UNCHANGED <<drumPatterns, drumPlaying, drumNext, drumEditing,
                   schedule>>

\* DrumDevice.ClearQueue
DrumClearQueue ==
    /\ drumQueue' = <<>>
    /\ schedule' = [StartTick |-> 0, Patterns |-> <<drumPlaying>>]
    /\ patternDirty' = {}
    /\ UNCHANGED <<drumPatterns, drumPlaying, drumNext, drumEditing>>

\* the schedule after DrumDevice.QueuePattern's slot replacement
RECURSIVE ReplaceAfterSlot(_, _, _, _, _, _)
ReplaceAfterSlot(pats, ps, i, tick, p, atTick) ==
    IF i > Len(ps) THEN Append(ps, p)
    ELSE LET patLen == drumPatternLengthTicks(pats, ps[i])
         IN  IF tick + patLen > atTick
             THEN IF i + 1 <= Len(ps)
                  THEN [j \in 1..Len(ps) |-> IF j >= i + 1 THEN p ELSE ps[j]]
                  ELSE Append(ps, p)
             ELSE ReplaceAfterSlot(pats, ps, i + 1, tick + patLen, p, atTick)

\* a QueuePattern that notes the request whatever the index and leaves the
\* schedule to the next FillUntil
DrumQueuePatternNotesAny(p, atTick) ==
    /\ drumNext' = p
    /\ UNCHANGED <<drumPatterns, drumPlaying, drumEditing, schedule,
                   patternDirty, drumQueue>>

\* DrumDevice.QueuePattern
DrumQueuePattern(p, atTick) ==
    IF p < 0 \/ p >= NumPatterns
    THEN UNCHANGED drumVars
    ELSE LET ext == extendSchedule(drumPatterns, schedule, atTick)
             sch == [ext EXCEPT !.Patterns =
                        ReplaceAfterSlot(drumPatterns, ext.Patterns, 1,
                                         ext.StartTick, p, atTick)]
             r == syncQueueToSchedule(drumPatterns, sch,
                                      patternDirty \cup {p}, drumQueue,
                                      drumPlaying)
         IN  /\ drumNext' = p
             /\ schedule' = sch
             /\ drumQueue' = r.queue
             /\ drumPlaying' = r.playing
             /\ patternDirty' = r.dirty
             /\ UNCHANGED <<drumPatterns, drumEditing>>

\* the tail shared by the drum edit functions: mark the editing pattern
\* dirty and sync
DrumAfterEdit(pats) ==
    LET r == syncQueueToSchedule(pats, schedule,
                                 patternDirty \cup {drumEditing}, drumQueue,
                                 drumPlaying)
    IN  /\ drumPatterns' = pats
        /\ drumQueue' = r.queue
        /\ drumPlaying' = r.playing
        /\ patternDirty' = r.dirty
        /\ UNCHANGED <<drumNext, drumEditing, schedule>>

\* DrumDevice.ToggleStep
DrumToggleStep(note, step) ==
    IF note < 0 \/ note > MaxLane \/ step < 0
       \/ step >= drumPatterns[drumEditing][note].Length
    THEN UNCHANGED drumVars
    ELSE DrumAfterEdit(
             [drumPatterns EXCEPT ![drumEditing][note].Steps[step].Active =
                                      ~@])

\* DrumDevice.SetNoteLaneLength
DrumSetNoteLaneLength(note, length) ==
    IF note < 0 \/ note > MaxLane \/ length < 1 \/ length > MaxLaneLen
    THEN UNCHANGED drumVars
    ELSE DrumAfterEdit(
             [drumPatterns EXCEPT ![drumEditing][note].Length = length])

(***************************************************************************)
(* Piano roll device                                                       *)
(***************************************************************************)
\* Beats are held in units of 1/BeatDenom beat (the finest edit step).
BeatDenom == 64

\* int64(beats * float64(PPQ))
BeatsToTicks(b) == (b * PPQ) \div BeatDenom

\* Go's % truncates toward zero
GoMod(a, b) == IF a >= 0 THEN a % b ELSE 0 - ((0 - a) % b)

\* sort.Slice by Tick (insertion sort for the short slices of the model:
\* events of equal tick keep their order)
RECURSIVE InsertByTick(_, _)
InsertByTick(e, sorted) ==
    IF sorted = <<>> THEN <<e>>
    ELSE IF Head(sorted).Tick <= e.Tick
         THEN <<Head(sorted)>> \o InsertByTick(e, Tail(sorted))
         ELSE <<e>> \o sorted

RECURSIVE SortByTick(_)
SortByTick(evs) ==
    IF evs = <<>> THEN <<>>
    ELSE InsertByTick(evs[Len(evs)], SortByTick(SubSeq(evs, 1, Len(evs) - 1)))

\* the note loop with the NoteOff placed a duration after the cycle start
RECURSIVE PianoNoteEventsOffFromBase(_, _, _)
PianoNoteEventsOffFromBase(notes, patternNum, startTick) ==
    IF notes = <<>> THEN <<>>
    ELSE LET note == Head(notes)
             noteTick == startTick + BeatsToTicks(note.Start)
             noteEndTick == startTick + BeatsToTicks(note.Duration)
         IN  <<Event(noteTick, NoteOn, note.Pitch, note.Velocity, 0,
                     Src(patternNum, -1, -1)),
               Event(noteEndTick, NoteOff, note.Pitch, 0, 0,
                     Src(patternNum, -1, -1))>>
             \o PianoNoteEventsOffFromBase(Tail(notes), patternNum, startTick)

\* the note loop of PianoRollDevice.GeneratePattern
RECURSIVE PianoNoteEvents(_, _, _)
PianoNoteEvents(notes, patternNum, startTick) ==
    IF notes = <<>> THEN <<>>
    ELSE LET note == Head(notes)
             noteTick == startTick + BeatsToTicks(note.Start)
             noteEndTick == startTick + BeatsToTicks(note.Start + note.Duration)
         IN  <<Event(noteTick, NoteOn, note.Pitch, note.Velocity, 0,
                     Src(patternNum, -1, -1)),
               Event(noteEndTick, NoteOff, note.Pitch, 0, 0,
                     Src(patternNum, -1, -1))>>
             \o PianoNoteEvents(Tail(notes), patternNum, startTick)

\* PianoRollDevice.GeneratePattern
PianoGeneratePattern(pats, patternNum, startTick) ==
    SortByTick(PianoNoteEvents(pats[patternNum].Notes, patternNum, startTick))

pianoPatternLengthTicks(pats, patternNum) ==
    BeatsToTicks(pats[patternNum].Length)

\* the generation loop of PianoRollDevice.FillUntil
RECURSIVE PianoFillLoop(_, _, _)
PianoFillLoop(pats, st, tick) ==
    IF st.queuedUntil < tick
    THEN LET sw == st.nextPatTick >= 0 /\ st.queuedUntil >= st.nextPatTick
             cur == IF sw THEN st.next ELSE st.pattern
         IN  PianoFillLoop(pats,
                 [queuedUntil |-> st.queuedUntil
                                  + pianoPatternLengthTicks(pats, cur),
                  patternStart |-> IF sw THEN st.nextPatTick
                                   ELSE st.patternStart,
                  nextPatTick |-> IF sw THEN -1 ELSE st.nextPatTick,
                  pattern |-> cur,
                  next |-> st.next,
                  newEvents |-> st.newEvents
                      \o PianoGeneratePattern(pats, cur, st.queuedUntil)],
                 tick)
    ELSE st

\* PianoRollDevice.FillUntil
PianoFillUntil(tick) ==
    IF pianoQueuedUntilTick >= tick
    THEN UNCHANGED pianoVars
    ELSE LET st == PianoFillLoop(pianoPatterns,
                       [queuedUntil |-> pianoQueuedUntilTick,
                        patternStart |-> pianoPatternStartTick,
                        nextPatTick |-> pianoNextPatternTick,
                        pattern |-> pianoPattern,
                        next |-> pianoNext,
                        newEvents |-> <<>>],
                       tick)
         IN  /\ pianoQueue' = pianoQueue \o st.newEvents
             /\ pianoQueuedUntilTick' = st.queuedUntil
             /\ pianoPatternStartTick' = st.patternStart
             /\ pianoNextPatternTick' = st.nextPatTick
             /\ pianoPattern' = st.pattern
             /\ UNCHANGED <<pianoPatterns, pianoNext, pianoEditing>>

\* PianoRollDevice.ClearQueue
PianoClearQueue ==
    /\ pianoQueue' = <<>>
    /\ pianoQueuedUntilTick' = 0
    /\ pianoPatternStartTick' = 0
    /\ pianoNextPatternTick' = -1
    /\ UNCHANGED <<pianoPatterns, pianoPattern, pianoNext, pianoEditing>>

\* a boundary computation that keeps an atTick that lies on a boundary
BoundaryTickAtOrAfter(patternStart, patternTicks, atTick) ==
    LET ticksSinceStart == atTick - patternStart
        ticksIntoPattern == GoMod(ticksSinceStart, patternTicks)
    IN  IF ticksIntoPattern = 0 THEN atTick
        ELSE atTick + (patternTicks - ticksIntoPattern)

\* the boundary computed by QueuePattern of the piano and metropolix devices
BoundaryTick(patternStart, patternTicks, atTick) ==
    LET ticksSinceStart == atTick - patternStart
        ticksIntoPattern == GoMod(ticksSinceStart, patternTicks)
        ticksToNextBoundary == patternTicks - ticksIntoPattern
    IN  atTick + ticksToNextBoundary

\* PianoRollDevice.QueuePattern
PianoQueuePattern(patIdx, atTick) ==
    IF patIdx < 0 \/ patIdx >= NumPatterns
    THEN UNCHANGED pianoVars
    ELSE LET patternTicks == BeatsToTicks(pianoPatterns[pianoPattern].Length)
             boundaryTick == BoundaryTick(pianoPatternStartTick, patternTicks,
                                          atTick)
         IN  /\ pianoNext' = patIdx
             /\ pianoNextPatternTick' = boundaryTick
             /\ IF pianoQueuedUntilTick > boundaryTick
                THEN /\ pianoQueue' = SelectTickBelow(pianoQueue, boundaryTick)
                     /\ pianoQueuedUntilTick' = boundaryTick
                ELSE UNCHANGED <<pianoQueue, pianoQueuedUntilTick>>
             /\ UNCHANGED <<pianoPatterns, pianoPattern, pianoEditing,
                            pianoPatternStartTick>>

(***************************************************************************)
(* Metropolix device                                                       *)
(***************************************************************************)
StageIds == 0..MaxStage

ModeForward == 0
ModeReverse == 1
ModePendulum == 2
ModeRandom == 3

\* scales: intervals from the root, indexed by ScaleType
scales ==
    << <<0, 1, 2, 3, 4, 5, 6, 7, 8, 9, 10, 11>>,
       <<0, 2, 4, 5, 7, 9, 11, 12>>,
       <<0, 2, 3, 5, 7, 8, 10, 12>>,
       <<0, 2, 4, 7, 9, 12, 14, 16>>,
       <<0, 2, 3, 5, 7, 9, 10, 12>>,
       <<0, 1, 3, 5, 7, 8, 10, 12>>,
       <<0, 2, 4, 6, 7, 9, 11, 12>>,
       <<0, 2, 4, 5, 7, 9, 10, 12>>,
       <<0, 1, 3, 5, 6, 8, 10, 12>>,
       <<0, 2, 3, 5, 7, 8, 11, 12>>,
       <<0, 2, 3, 5, 7, 9, 11, 12>>,
       <<0, 3, 5, 6, 7, 10, 12, 15>>,
       <<0, 2, 4, 6, 8, 10, 12>>,
       <<0, 1, 3, 4, 6, 7, 9, 10>>,
       <<0, 2, 3, 5, 6, 8, 9, 11>>,
       <<0, 2, 3, 6, 7, 8, 11, 12>>,
       <<0, 1, 4, 5, 7, 8, 11, 12>>,
       <<0, 1, 4, 5, 7, 8, 10, 12>>,
       <<0, 2, 3, 7, 8, 12, 14, 15>>,
       <<0, 1, 5, 7, 10, 12, 13, 17>>,
       <<0, 2, 4, 7, 9, 12, 14, 16>>,
       <<0, 1, 3, 5, 7, 8, 10, 12>> >>

ScaleCount == Len(scales)

gateLengths == <<0, 1, 2, 4, 8, 16>>

\* rand.Intn(n) for the raw draw d
Intn(n, d) == d % n

\* the k-th random draw of a call, taken from the oracle dr
Draw(dr, k) == dr[(k % MaxDraws) + 1]

\* MetropolixDevice.fauxPatternLength
RECURSIVE fauxLengthFrom(_, _)
fauxLengthFrom(pat, i) ==
    IF i >= pat.Length THEN 0
    ELSE pat.Stages[i].PulseCount + fauxLengthFrom(pat, i + 1)

fauxPatternLength(pats, patternNum) == fauxLengthFrom(pats[patternNum], 0)

fauxPatternTicks(pats, patternNum) ==
    fauxPatternLength(pats, patternNum) * (PPQ \div 4)

\* a pitch calculation that leaves the sum as it comes out
calculatePitchUnclamped(pat, accum, stageIdx) ==
    LET stage == pat.Stages[stageIdx]
        scale == scales[pat.Scale + 1]
        scaleLen == Len(scale)
    IN  pat.RootNote + scale[(stage.Note % scaleLen) + 1]
        + ((stage.Note \div scaleLen) * 12) + (stage.Octave - 4) * 12
        + accum[stageIdx]

\* MetropolixDevice.calculatePitch
calculatePitch(pat, accum, stageIdx) ==
    LET stage == pat.Stages[stageIdx]
        scale == scales[pat.Scale + 1]
        scaleLen == Len(scale)
        noteIdx == stage.Note % scaleLen
        octaveShift == stage.Note \div scaleLen
        basePitch == pat.RootNote + scale[noteIdx + 1] + (octaveShift * 12)
                     + (stage.Octave - 4) * 12 + accum[stageIdx]
    IN  IF basePitch < 0 THEN 0
        ELSE IF basePitch > 127 THEN 127 ELSE basePitch

\* MetropolixDevice.nextStage: the next stage index and the pendulum
\* direction it leaves
nextStage(pat, stageNow, direction, d) ==
    IF pat.Mode = ModeForward
    THEN [next |-> (stageNow + 1) % pat.Length, dir |-> direction]
    ELSE IF pat.Mode = ModeReverse
    THEN [next |-> IF stageNow - 1 < 0 THEN pat.Length - 1 ELSE stageNow - 1,
          dir |-> direction]
    ELSE IF pat.Mode = ModePendulum
    THEN LET next == stageNow + direction
         IN  IF next >= pat.Length
             THEN [next |-> IF stageNow - 1 < 0 THEN 0 ELSE stageNow - 1,
                   dir |-> -1]
             ELSE IF next < 0
             THEN [next |-> IF 1 >= pat.Length THEN 0 ELSE 1, dir |-> 1]
             ELSE [next |-> next, dir |-> direction]
    ELSE IF pat.Mode = ModeRandom
    THEN [next |-> Intn(pat.Length, d), dir |-> direction]
    ELSE [next |-> (stageNow + 1) % pat.Length, dir |-> direction]

\* applyAccumulator with the ping-pong turn taken after the step instead of
\* before it
applyAccumulatorTurnAfterStep(stage, acc) ==
    IF stage.Accumulator = 0 THEN acc
    ELSE LET dir0 == IF acc.AccumDir = 0 THEN 1 ELSE acc.AccumDir
             count1 == acc.AccumCount + 1
             hit == stage.AccumReset > 0 /\ count1 >= stage.AccumReset
         IN  IF hit /\ stage.AccumMode = 1
             THEN [Accum |-> acc.Accum + stage.Accumulator * dir0,
                   AccumCount |-> 0, AccumDir |-> 0 - dir0]
             ELSE IF hit /\ stage.AccumMode = 2
             THEN [Accum |-> acc.Accum, AccumCount |-> stage.AccumReset,
                   AccumDir |-> dir0]
             ELSE IF hit
             THEN [Accum |-> stage.Accumulator, AccumCount |-> 0,
                   AccumDir |-> 1]
             ELSE [Accum |-> acc.Accum + stage.Accumulator * dir0,
                   AccumCount |-> count1, AccumDir |-> dir0]

\* applyAccumulator with the early return of the hold case left out
applyAccumulatorHoldFallsThrough(stage, acc) ==
    IF stage.Accumulator = 0 THEN acc
    ELSE LET dir0 == IF acc.AccumDir = 0 THEN 1 ELSE acc.AccumDir
             count1 == acc.AccumCount + 1
             hit == stage.AccumReset > 0 /\ count1 >= stage.AccumReset
             sw == IF hit /\ stage.AccumMode = 0
                   THEN [Accum |-> 0, AccumCount |-> 0, AccumDir |-> 1]
                   ELSE IF hit /\ stage.AccumMode = 1
                   THEN [Accum |-> acc.Accum, AccumCount |-> 0,
                         AccumDir |-> 0 - dir0]
                   ELSE IF hit /\ stage.AccumMode = 2
                   THEN [Accum |-> acc.Accum,
                         AccumCount |-> stage.AccumReset, AccumDir |-> dir0]
                   ELSE [Accum |-> acc.Accum, AccumCount |-> count1,
                         AccumDir |-> dir0]
         IN  [sw EXCEPT !.Accum = @ + stage.Accumulator * sw.AccumDir]

\* MetropolixDevice.applyAccumulator on one stage: acc holds the stage's
\* Accum, AccumCount and AccumDir
applyAccumulator(stage, acc) ==
    IF stage.Accumulator = 0 THEN acc
    ELSE LET dir0 == IF acc.AccumDir = 0 THEN 1 ELSE acc.AccumDir
             count1 == acc.AccumCount + 1
             hit == stage.AccumReset > 0 /\ count1 >= stage.AccumReset
             sw == IF hit /\ stage.AccumMode = 0
                   THEN [Accum |-> 0, AccumCount |-> 0, AccumDir |-> 1]
                   ELSE IF hit /\ stage.AccumMode = 1
                   THEN [Accum |-> acc.Accum, AccumCount |-> 0,
                         AccumDir |-> 0 - dir0]
                   ELSE [Accum |-> acc.Accum, AccumCount |-> count1,
                         AccumDir |-> dir0]
         IN  IF hit /\ stage.AccumMode = 2
             THEN [Accum |-> acc.Accum, AccumCount |-> stage.AccumReset,
                   AccumDir |-> dir0]
             ELSE [sw EXCEPT !.Accum = @ + stage.Accumulator * sw.AccumDir]

\* the accumulator state of stage i in the runtime state run
StageAcc(run, i) ==
    [Accum |-> run.Accum[i], AccumCount |-> run.AccumCount[i],
     AccumDir |-> run.AccumDir[i]]

WithStageAcc(run, i, acc) ==
    [run EXCEPT !.Accum[i] = acc.Accum, !.AccumCount[i] = acc.AccumCount,
                !.AccumDir[i] = acc.AccumDir]

\* int64/int16 conversion of a quotient: truncation toward zero
TruncDiv(a, b) == IF a >= 0 THEN a \div b ELSE 0 - ((0 - a) \div b)

\* int16(x): the low 16 bits, as a signed value
Int16(x) == ((x + 32768) % 65536) - 32768

\* the ratchet test without the gate
StageFiresWithoutGate(stage) == stage.Ratchets > 0

\* GeneratePattern's test whether a stage plays its ratchets
StageFires(stage) == stage.Gate /\ stage.Ratchets > 0

\* the probability check with the comparison off by one
ProbabilitySkipsAbove(stage, d) == Intn(100, d) > stage.Probability

\* GeneratePattern's probability check of one ratchet, for the raw draw d
ProbabilitySkips(stage, d) == Intn(100, d) >= stage.Probability

\* a ratchet loop that plays every gate at its full length
RECURSIVE RatchetEventsUnclamped(_, _, _, _, _, _, _, _)
RatchetEventsUnclamped(pat, run, src, currentTick, r, dr, k, stageIdx) ==
    LET stage == pat.Stages[stageIdx]
        stageTicks == stage.PulseCount * TicksPerStep
        ri == stageTicks \div stage.Ratchets
        ratchetInterval == IF ri < 1 THEN 1 ELSE ri
    IN  IF r >= stage.Ratchets THEN <<>>
        ELSE LET rest == RatchetEventsUnclamped(pat, run, src, currentTick,
                                                r + 1, dr, k + 1, stageIdx)
                 ratchetTick == currentTick + r * ratchetInterval
                 pitch == calculatePitch(pat, run.Accum, stageIdx)
                 gt == gateLengths[stage.GateLength + 1] * TicksPerStep
             IN  IF ProbabilitySkips(stage, Draw(dr, k))
                 THEN rest
                 ELSE <<Event(ratchetTick, NoteOn, pitch, 100, 0, src),
                        Event(ratchetTick + gt, NoteOff, pitch, 0, 0, src)>>
                      \o rest

\* the ratchet loop of GeneratePattern for one stage, from ratchet r on;
\* k is the index of the next random draw
RECURSIVE RatchetEvents(_, _, _, _, _, _, _, _)
RatchetEvents(pat, run, src, currentTick, r, dr, k, stageIdx) ==
    LET stage == pat.Stages[stageIdx]
        stageTicks == stage.PulseCount * TicksPerStep
        ri == stageTicks \div stage.Ratchets
        ratchetInterval == IF ri < 1 THEN 1 ELSE ri
    IN  IF r >= stage.Ratchets THEN <<>>
        ELSE LET rest == RatchetEvents(pat, run, src, currentTick,
                                       r + 1, dr, k + 1, stageIdx)
                 ratchetTick == currentTick + r * ratchetInterval
                 pitch == calculatePitch(pat, run.Accum, stageIdx)
                 gt0 == gateLengths[stage.GateLength + 1] * TicksPerStep
                 maxGate == IF r = stage.Ratchets - 1
                            THEN stageTicks - r * ratchetInterval
                            ELSE ratchetInterval
                 gt == IF gt0 > maxGate THEN maxGate ELSE gt0
             IN  IF ProbabilitySkips(stage, Draw(dr, k))
                 THEN rest
                 ELSE <<Event(ratchetTick, NoteOn, pitch, 100, 0, src),
                        Event(IF gt0 = 0 THEN ratchetTick
                              ELSE ratchetTick + gt,
                              NoteOff, pitch, 0, 0, src)>>
                      \o rest

\* the pitch-bend ramp of a slide, from index i on
RECURSIVE SlideEvents(_, _, _, _, _, _)
SlideEvents(pat, src, slideStartTick, startPitch, endPitch, i) ==
    IF i >= pat.SlideTime
    THEN <<Event(slideStartTick + pat.SlideTime, PitchBend, 0, 0, 0, src)>>
    ELSE <<Event(slideStartTick + i, PitchBend, 0, 0,
                 Int16(TruncDiv((endPitch - startPitch) * i * 4096,
                                pat.SlideTime)),
                 src)>>
         \o SlideEvents(pat, src, slideStartTick, startPitch, endPitch,
                        i + 1)

\* the stage loop of GeneratePattern, from iteration stageIdx on; visits
\* is a ghost list of the stages the iterations played
RECURSIVE MetroStageLoop(_, _, _, _, _, _, _)
MetroStageLoop(pat, patternNum, run, stageIdx, currentTick, dr, k) ==
    IF stageIdx >= pat.Length
    THEN [events |-> <<>>, run |-> run, k |-> k, visits |-> <<>>]
    ELSE LET stage == pat.Stages[run.Stage]
             stageTicks == stage.PulseCount * TicksPerStep
             src == Src(patternNum, run.Stage, stageIdx)
             fires == StageFires(stage)
             noteEvs == IF fires
                        THEN RatchetEvents(pat, run, src, currentTick,
                                           0, dr, k, run.Stage)
                        ELSE <<>>
             k1 == IF fires THEN k + stage.Ratchets ELSE k
             run1 == WithStageAcc(run, run.Stage,
                         applyAccumulator(stage, StageAcc(run, run.Stage)))
             ns == nextStage(pat, run1.Stage, run1.Direction, Draw(dr, k1))
             k2 == IF pat.Mode = ModeRandom THEN k1 + 1 ELSE k1
             slideEvs == IF stage.Slide /\ ns.next # run.Stage
                            /\ pat.SlideTime > 0
                         THEN SlideEvents(pat, src,
                                  currentTick + stageTicks,
                                  calculatePitch(pat, run1.Accum, run.Stage),
                                  calculatePitch(pat, run1.Accum, ns.next), 0)
                         ELSE <<>>
             rest == MetroStageLoop(pat, patternNum,
                         [run1 EXCEPT !.Direction = ns.dir, !.Stage = ns.next],
                         stageIdx + 1, currentTick + stageTicks, dr, k2)
         IN  [events |-> noteEvs \o slideEvs \o rest.events,
              run |-> rest.run, k |-> rest.k,
              visits |-> <<run.Stage>> \o rest.visits]

\* MetropolixDevice.GeneratePattern: the events of one faux cycle and the
\* runtime state it leaves (dr is the oracle of random draws)
MetroGeneratePattern(pats, patternNum, run, startTick, dr, k) ==
    MetroStageLoop(pats[patternNum], patternNum, [run EXCEPT !.Stage = 0], 0,
                   startTick, dr, k)

FreshAccum ==
    [Accum |-> [i \in StageIds |-> 0], AccumCount |-> [i \in StageIds |-> 0],
     AccumDir |-> [i \in StageIds |-> 1]]

\* MetropolixState.ResetAccumulators
ResetAccumulators(run) ==
    [run EXCEPT !.Accum = FreshAccum.Accum,
                !.AccumCount = FreshAccum.AccumCount,
                !.AccumDir = FreshAccum.AccumDir]

\* MetropolixState.ResetPlayback
ResetPlayback(run) == [run EXCEPT !.Stage = 0, !.Direction = 1]

\* the generation loop of FillUntil with an `if` in place of the `for`
MetroFillOnce(pats, st, tick, dr) ==
    IF st.queuedUntil < tick
    THEN LET sw == st.nextPatTick >= 0 /\ st.queuedUntil >= st.nextPatTick
             cur == IF sw THEN st.next ELSE st.pattern
             run0 == IF sw THEN ResetAccumulators(st.run) ELSE st.run
             g == MetroGeneratePattern(pats, cur, run0, st.queuedUntil, dr,
                                       st.k)
         IN  [queuedUntil |-> st.queuedUntil + fauxPatternTicks(pats, cur),
              patternStart |-> IF sw THEN st.nextPatTick ELSE st.patternStart,
              nextPatTick |-> IF sw THEN -1 ELSE st.nextPatTick,
              pattern |-> cur,
              next |-> IF sw THEN -1 ELSE st.next,
              run |-> g.run,
              k |-> g.k,
              newEvents |-> st.newEvents \o g.events]
    ELSE st

\* the generation loop of MetropolixDevice.FillUntil
RECURSIVE MetroFillLoop(_, _, _, _)
MetroFillLoop(pats, st, tick, dr) ==
    IF st.queuedUntil < tick
    THEN LET sw == st.nextPatTick >= 0 /\ st.queuedUntil >= st.nextPatTick
             cur == IF sw THEN st.next ELSE st.pattern
             run0 == IF sw THEN ResetAccumulators(st.run) ELSE st.run
             g == MetroGeneratePattern(pats, cur, run0, st.queuedUntil, dr,
                                       st.k)
         IN  MetroFillLoop(pats,
                 [queuedUntil |-> st.queuedUntil + fauxPatternTicks(pats, cur),
                  patternStart |-> IF sw THEN st.nextPatTick
                                   ELSE st.patternStart,
                  nextPatTick |-> IF sw THEN -1 ELSE st.nextPatTick,
                  pattern |-> cur,
                  next |-> IF sw THEN -1 ELSE st.next,
                  run |-> g.run,
                  k |-> g.k,
                  newEvents |-> st.newEvents \o g.events],
                 tick, dr)
    ELSE st

\* MetropolixDevice.FillUntil
MetroFillUntil(tick, dr) ==
    IF metroQueuedUntilTick >= tick
    THEN UNCHANGED metroVars
    ELSE LET st == MetroFillLoop(metroPatterns,
                       [queuedUntil |-> metroQueuedUntilTick,
                        patternStart |-> metroPatternStartTick,
                        nextPatTick |-> metroNextPatternTick,
                        pattern |-> metroPattern,
                        next |-> metroNext,
                        run |-> metroRun,
                        k |-> 0,
                        newEvents |-> <<>>],
                       tick, dr)
         IN  /\ metroQueue' = metroQueue \o st.newEvents
             /\ metroQueuedUntilTick' = st.queuedUntil
             /\ metroPatternStartTick' = st.patternStart
             /\ metroNextPatternTick' = st.nextPatTick
             /\ metroPattern' = st.pattern
             /\ metroNext' = st.next
             /\ metroRun' = st.run
             /\ UNCHANGED <<metroPatterns, metroEditing, metroSelected>>

\* MetropolixDevice.ClearQueue
MetroClearQueue ==
    /\ metroQueue' = <<>>
    /\ metroQueuedUntilTick' = 0
    /\ metroPatternStartTick' = 0
    /\ metroNextPatternTick' = -1
    /\ metroRun' = ResetPlayback(metroRun)
    /\ UNCHANGED <<metroPatterns, metroPattern, metroNext, metroEditing,
                   metroSelected>>

\* MetropolixDevice.QueuePattern
MetroQueuePattern(p, atTick) ==
    IF p < 0 \/ p >= NumPatterns
    THEN UNCHANGED metroVars
    ELSE LET patternTicks == fauxPatternTicks(metroPatterns, metroPattern)
             boundaryTick == BoundaryTick(metroPatternStartTick, patternTicks,
                                          atTick)
         IN  /\ metroNext' = p
             /\ metroNextPatternTick' = boundaryTick
             /\ IF metroQueuedUntilTick > boundaryTick
                THEN /\ metroQueue' = SelectTickBelow(metroQueue, boundaryTick)
                     /\ metroQueuedUntilTick' = boundaryTick
                ELSE UNCHANGED <<metroQueue, metroQueuedUntilTick>>
             /\ UNCHANGED <<metroPatterns, metroPattern, metroEditing,
                            metroSelected, metroRun, metroPatternStartTick>>

\* the regeneration loop of MetropolixDevice.regeneratePatternInQueue
RECURSIVE MetroRegenLoop(_, _, _, _, _)
MetroRegenLoop(pats, patternNum, st, oldQueuedUntil, dr) ==
    IF st.queuedUntil < oldQueuedUntil
    THEN LET g == MetroGeneratePattern(pats, patternNum, st.run,
                                       st.queuedUntil, dr, st.k)
         IN  MetroRegenLoop(pats, patternNum,
                 [queuedUntil |-> st.queuedUntil
                                  + fauxPatternTicks(pats, patternNum),
                  run |-> g.run, k |-> g.k,
                  newQueue |-> st.newQueue \o g.events],
                 oldQueuedUntil, dr)
    ELSE st

\* MetropolixDevice.regeneratePatternInQueue, run on the pattern data pats
MetroRegenerate(pats, patternNum, dr) ==
    IF patternNum # metroPattern
    THEN /\ metroPatterns' = pats
         /\ UNCHANGED <<metroPattern, metroNext, metroEditing, metroSelected,
                        metroRun, metroQueue, metroQueuedUntilTick,
                        metroPatternStartTick, metroNextPatternTick>>
    ELSE LET st == MetroRegenLoop(pats, metroPattern,
                       [queuedUntil |-> metroPatternStartTick,
                        run |-> metroRun, k |-> 0,
                        newQueue |-> SelectTickBelow(metroQueue,
                                         metroPatternStartTick)],
                       metroQueuedUntilTick, dr)
         IN  /\ metroPatterns' = pats
             /\ metroQueue' = st.newQueue
             /\ metroQueuedUntilTick' = st.queuedUntil
             /\ metroRun' = st.run
             /\ UNCHANGED <<metroPattern, metroNext, metroEditing,
                            metroSelected, metroPatternStartTick,
                            metroNextPatternTick>>

(***************************************************************************)
(* Pattern edits                                                           *)
(***************************************************************************)
\* PianoRollDevice.HandleKey " ": a new note at the view centre, then the
\* trailing sort of the note list by start
RECURSIVE InsertByStart(_, _)
InsertByStart(n, sorted) ==
    IF sorted = <<>> THEN <<n>>
    ELSE IF Head(sorted).Start <= n.Start
         THEN <<Head(sorted)>> \o InsertByStart(n, Tail(sorted))
         ELSE <<n>> \o sorted

PianoAddNote(centerBeat, editHoriz, centerPitch) ==
    LET d == editHoriz * 4
        newNote == [Start |-> centerBeat,
                    Duration |-> IF d < BeatDenom \div 4
                                 THEN BeatDenom \div 4 ELSE d,
                    Pitch |-> centerPitch, Velocity |-> 100]
    IN  /\ pianoPatterns' = [pianoPatterns EXCEPT ![pianoEditing].Notes =
                                 InsertByStart(newNote, @)]
        /\ UNCHANGED <<pianoPattern, pianoNext, pianoEditing, pianoQueue,
                       pianoQueuedUntilTick, pianoPatternStartTick,
                       pianoNextPatternTick>>

\* PianoRollDevice.HandleKey "[" and "]": pattern length down / up one beat
PianoSetLength(delta) ==
    LET len == pianoPatterns[pianoEditing].Length
        new == IF delta < 0
               THEN (IF len > BeatDenom THEN len - BeatDenom ELSE len)
               ELSE (IF len < 64 * BeatDenom THEN len + BeatDenom ELSE len)
    IN  /\ pianoPatterns' = [pianoPatterns EXCEPT ![pianoEditing].Length = new]
        /\ UNCHANGED <<pianoPattern, pianoNext, pianoEditing, pianoQueue,
                       pianoQueuedUntilTick, pianoPatternStartTick,
                       pianoNextPatternTick>>

\* MetropolixDevice.HandleKey " " and "s": gate and slide of the selected
\* stage of the editing pattern
MetroToggleGate ==
    /\ metroPatterns' = [metroPatterns EXCEPT
                             ![metroEditing].Stages[metroSelected].Gate = ~@]
    /\ UNCHANGED <<metroPattern, metroNext, metroEditing, metroSelected,
                   metroRun, metroQueue, metroQueuedUntilTick,
                   metroPatternStartTick, metroNextPatternTick>>

MetroToggleSlide ==
    /\ metroPatterns' = [metroPatterns EXCEPT
                             ![metroEditing].Stages[metroSelected].Slide = ~@]
    /\ UNCHANGED <<metroPattern, metroNext, metroEditing, metroSelected,
                   metroRun, metroQueue, metroQueuedUntilTick,
                   metroPatternStartTick, metroNextPatternTick>>

\* MetropolixDevice.HandleKey "x": root note up, then regenerate
MetroRootUp(dr) ==
    MetroRegenerate(
        [metroPatterns EXCEPT ![metroEditing].RootNote =
                                  IF @ < 127 THEN @ + 1 ELSE @],
        metroEditing, dr)

(***************************************************************************)
(* Transport, queue manager and dispatcher                                 *)
(***************************************************************************)
DrumTrack == 0
PianoTrack == 1
MetroTrack == 2
TrackIds == {DrumTrack, PianoTrack, MetroTrack}

Present(t) == trackType[t] # "none"

QueueOf(t) ==
    IF ~Present(t) THEN <<>>
    ELSE IF t = DrumTrack THEN drumQueue
    ELSE IF t = PianoTrack THEN pianoQueue
    ELSE metroQueue

\* the filled-until watermark of the device on track t
WatermarkOf(t) ==
    IF t = DrumTrack THEN scheduleEndTick(drumPatterns, schedule)
    ELSE IF t = PianoTrack THEN pianoQueuedUntilTick
    ELSE metroQueuedUntilTick

\* the random oracles a generating call can be given
RandDraws == {0, 49, 50, 99}
Oracles == [1..MaxDraws -> RandDraws]

\* rand.Intn changes what is generated only where a stage's probability is
\* below 100 or a pattern runs in random mode
DrawsMatter(pats) ==
    \E p \in DOMAIN pats :
       \/ pats[p].Mode = ModeRandom
       \/ \E s \in StageIds : pats[p].Stages[s].Probability < 100

\* the oracles that can tell two calls on the patterns pats apart
OraclesFor(pats) ==
    IF DrawsMatter(pats) THEN Oracles ELSE {[i \in 1..MaxDraws |-> 0]}

ClearQueues == DrumClearQueue /\ PianoClearQueue /\ MetroClearQueue

\* ghost record of a call: whether it returned early, how many queued
\* events it dropped, and for a Play call that returned early the tick at
\* which it came
Call(op, ignored, dropped, tick) ==
    [op |-> op, ignored |-> ignored, dropped |-> dropped, tick |-> tick]

\* a Play that starts playback again while it runs
PlayRestarts ==
    /\ plays <= MaxPlays
    /\ plays' = plays + 1
    /\ playing' = TRUE
    /\ Tick' = 0
    /\ ClearQueues
    /\ sent' = <<>>
    /\ lastOp' = NoOp
    /\ switch' = NoOp
    /\ lastCall' = Call("Play", FALSE, 0, 0)
    /\ UNCHANGED <<trackType, muted, edits, launches, genLog>>

\* Manager.Play
Play ==
    /\ ~playing
    /\ plays < MaxPlays
    /\ plays' = plays + 1
    /\ playing' = TRUE
    /\ Tick' = 0
    /\ ClearQueues
    /\ sent' = <<>>
    /\ lastOp' = NoOp
    /\ switch' = NoOp
    /\ lastCall' = Call("Play", FALSE, 0, 0)
    /\ UNCHANGED <<trackType, muted, edits, launches, genLog>>

\* Manager.Play while S.Playing is set: the early return
PlayIgnored ==
    /\ playing
    /\ lastCall' = Call("Play", TRUE, 0, Tick)
    /\ UNCHANGED <<playing, Tick, sent, lastOp, switch, trackType, muted,
                   edits, plays, launches, drumVars, pianoVars, metroVars,
                   genLog>>

\* a Stop that clears the flag and leaves the queues
StopKeepsQueues ==
    /\ playing
    /\ playing' = FALSE
    /\ sent' = <<>>
    /\ lastOp' = NoOp
    /\ switch' = NoOp
    /\ lastCall' = Call("Stop", FALSE,
                        Len(drumQueue) + Len(pianoQueue) + Len(metroQueue),
                        0)
    /\ UNCHANGED <<Tick, trackType, muted, edits, plays, launches, genLog,
                   drumVars, pianoVars, metroVars>>

\* Manager.Stop; lastCall keeps how many queued events the call dropped
Stop ==
    /\ playing
    /\ playing' = FALSE
    /\ ClearQueues
    /\ sent' = <<>>
    /\ lastOp' = NoOp
    /\ switch' = NoOp
    /\ lastCall' = Call("Stop", FALSE,
                        Len(drumQueue) + Len(pianoQueue) + Len(metroQueue),
                        0)
    /\ UNCHANGED <<Tick, trackType, muted, edits, plays, launches, genLog>>

\* a peek scan that looks at muted tracks too
HasHeadMutedToo(t) == QueueOf(t) # <<>>

\* the peek scan: a track has a head event unless its queue is empty or
\* the track is muted
HasHead(t) == QueueOf(t) # <<>> /\ ~muted[t]

\* an event at the head of a queue whose time has come
DueHead == \E t \in TrackIds : HasHead(t) /\ QueueOf(t)[1].Tick <= Tick

\* the queue manager has run FillUntil for the current tick since playback
\* started and since the last request that interrupts it
FilledAhead == lastOp.op = "FillUntil" /\ lastOp.tick = Tick + LookAheadTicks

\* queue manager, UI ticker: the wall clock has moved on by a step and the
\* cached S.Tick follows it; the dispatcher, which sleeps no longer than
\* to the time of the earliest head event, has sent what was due, and the
\* queue manager, which wakes several times per step and at once on an
\* interrupt, has filled the queues
ClockTick ==
    /\ playing
    /\ ~DueHead
    /\ FilledAhead
    /\ Tick + TicksPerStep <= HorizonTick
    /\ Tick' = Tick + TicksPerStep
    /\ UNCHANGED <<playing, sent, lastOp, switch, trackType, muted,
                   lastCall, edits, plays,
                   launches, drumVars, pianoVars, metroVars, genLog>>

\* queue manager, periodic or interrupt wake: FillUntil on every device;
\* lastOp keeps the target and the queues the calls left
FillQueues ==
    /\ playing
    /\ LET target == Tick + LookAheadTicks
       IN  /\ IF Present(DrumTrack) THEN DrumFillUntil(target)
              ELSE UNCHANGED drumVars
           /\ IF Present(PianoTrack) THEN PianoFillUntil(target)
              ELSE UNCHANGED pianoVars
           /\ IF Present(MetroTrack)
              THEN \E dr \in OraclesFor(metroPatterns) :
                      MetroFillUntil(target, dr)
              ELSE UNCHANGED metroVars
           /\ lastOp' = [op |-> "FillUntil", tick |-> target,
                         queues |-> <<drumQueue', pianoQueue', metroQueue'>>]
    /\ UNCHANGED <<playing, Tick, sent, switch, trackType, muted,
                   lastCall, edits, plays,
                   launches, genLog>>

\* a peek scan that keeps the later track on equal ticks
IsEarliestTiesToLast(t) ==
    /\ HasHead(t)
    /\ \A u \in TrackIds :
          HasHead(u) =>
              \/ QueueOf(t)[1].Tick < QueueOf(u)[1].Tick
              \/ (QueueOf(t)[1].Tick = QueueOf(u)[1].Tick /\ t >= u)

\* the track whose head event the dispatcher takes next: smallest tick,
\* ties to the lowest track index
IsEarliest(t) ==
    /\ HasHead(t)
    /\ \A u \in TrackIds :
          HasHead(u) =>
              \/ QueueOf(t)[1].Tick < QueueOf(u)[1].Tick
              \/ (QueueOf(t)[1].Tick = QueueOf(u)[1].Tick /\ t <= u)

\* dispatcher: pop the earliest head event once its tick has come
Dispatch ==
    /\ playing
    /\ Len(sent) < MaxSent
    /\ \E t \in TrackIds :
          /\ IsEarliest(t)
          /\ QueueOf(t)[1].Tick <= Tick
          /\ sent' = Append(sent, QueueOf(t)[1])
          /\ drumQueue' = IF t = DrumTrack THEN Tail(drumQueue) ELSE drumQueue
          /\ pianoQueue' = IF t = PianoTrack THEN Tail(pianoQueue)
                           ELSE pianoQueue
          /\ metroQueue' = IF t = MetroTrack THEN Tail(metroQueue)
                           ELSE metroQueue
    /\ UNCHANGED <<playing, Tick, lastOp, switch, trackType, muted,
                   lastCall, edits, plays,
                   launches, genLog,
                   drumPatterns, drumPlaying, drumNext, drumEditing, schedule,
                   patternDirty, pianoPatterns, pianoPattern, pianoNext,
                   pianoEditing, pianoQueuedUntilTick, pianoPatternStartTick,
                   pianoNextPatternTick, metroPatterns, metroPattern,
                   metroNext, metroEditing, metroSelected, metroRun,
                   metroQueuedUntilTick, metroPatternStartTick,
                   metroNextPatternTick>>

\* the end tick of the schedule slot holding atTick (the drum's boundary)
RECURSIVE SlotEnd(_, _, _, _, _)
SlotEnd(pats, ps, i, tick, atTick) ==
    IF i > Len(ps) THEN tick
    ELSE LET patLen == drumPatternLengthTicks(pats, ps[i])
         IN  IF tick + patLen > atTick THEN tick + patLen
             ELSE SlotEnd(pats, ps, i + 1, tick + patLen, atTick)

RECURSIVE SlotPattern(_, _, _, _, _)
SlotPattern(pats, ps, i, tick, atTick) ==
    IF i >= Len(ps) THEN ps[Len(ps)]
    ELSE LET patLen == drumPatternLengthTicks(pats, ps[i])
         IN  IF tick + patLen > atTick THEN ps[i]
             ELSE SlotPattern(pats, ps, i + 1, tick + patLen, atTick)

InRangePattern(p) == p >= 0 /\ p < NumPatterns

\* ghost record of a switch request: the boundary the device chose, the
\* pattern requested, the pattern playing before, and how many events had
\* been dispatched
SwitchRec(boundary, p, prev) ==
    [op |-> "QueuePattern", boundary |-> boundary, p |-> p, prev |-> prev,
     sentAt |-> Len(sent)]

\* the boundary QueuePattern(p, Tick) picks on track t and the pattern
\* that plays up to it
SwitchOf(t, p) ==
    IF t = DrumTrack
    THEN LET ext == extendSchedule(drumPatterns, schedule, Tick)
         IN  SwitchRec(SlotEnd(drumPatterns, ext.Patterns, 1, ext.StartTick,
                               Tick),
                       p,
                       SlotPattern(drumPatterns, ext.Patterns, 1,
                                   ext.StartTick, Tick))
    ELSE IF t = PianoTrack
    THEN SwitchRec(BoundaryTick(pianoPatternStartTick,
                       pianoPatternLengthTicks(pianoPatterns, pianoPattern),
                       Tick),
                   p, pianoPattern)
    ELSE SwitchRec(BoundaryTick(metroPatternStartTick,
                       fauxPatternTicks(metroPatterns, metroPattern), Tick),
                   p, metroPattern)

\* SessionDevice: launch pattern p on track t at the cached tick
Launch(t, p) ==
    /\ playing
    /\ Present(t)
    /\ InRangePattern(p) => launches < MaxLaunches
    /\ IF t = DrumTrack
       THEN DrumQueuePattern(p, Tick) /\ UNCHANGED <<pianoVars, metroVars>>
       ELSE IF t = PianoTrack
       THEN PianoQueuePattern(p, Tick) /\ UNCHANGED <<drumVars, metroVars>>
       ELSE MetroQueuePattern(p, Tick) /\ UNCHANGED <<drumVars, pianoVars>>
    /\ IF InRangePattern(p)
       THEN /\ launches' = launches + 1
            /\ lastOp' = NoOp
            /\ switch' = IF switch = NoOp THEN SwitchOf(t, p)
                         ELSE [op |-> "many"]
       ELSE UNCHANGED <<launches, lastOp, switch>>
    /\ lastCall' = [op |-> "QueuePattern", track |-> t, p |-> p]
    /\ UNCHANGED <<playing, Tick, sent, trackType, muted, edits, plays,
                   genLog>>

\* a pattern edit from the UI during playback (edits made while stopped
\* are covered by the initial pattern data)
EditFrame ==
    /\ playing
    /\ edits < MaxEdits
    /\ edits' = edits + 1
    /\ lastOp' = NoOp
    /\ switch' = IF switch = NoOp THEN NoOp ELSE [op |-> "many"]
    /\ UNCHANGED <<playing, Tick, sent, trackType, muted, lastCall, plays,
                   launches, genLog>>

DrumEdit ==
    /\ Present(DrumTrack)
    /\ \/ \E note \in LaneIds, step \in 0..(MaxLaneLen - 1) :
             DrumToggleStep(note, step)
       \/ \E note \in LaneIds, length \in 1..MaxLaneLen :
             DrumSetNoteLaneLength(note, length)
    /\ drumPatterns' # drumPatterns
    /\ EditFrame
    /\ UNCHANGED <<pianoVars, metroVars>>

PianoNoteStarts == {0, BeatDenom \div 2}
PianoEditHoriz == {BeatDenom \div 16, BeatDenom \div 4}

PianoEdit ==
    /\ Present(PianoTrack)
    /\ \/ /\ Len(pianoPatterns[pianoEditing].Notes) < MaxNotes
          /\ \E c \in PianoNoteStarts, h \in PianoEditHoriz :
                PianoAddNote(c, h, 60)
       \/ /\ pianoPatterns[pianoEditing].Length < MaxBeats * BeatDenom
          /\ PianoSetLength(1)
       \/ PianoSetLength(-1)
    /\ pianoPatterns' # pianoPatterns
    /\ EditFrame
    /\ UNCHANGED <<drumVars, metroVars>>

MetroEdit ==
    /\ Present(MetroTrack)
    /\ \/ MetroToggleGate
       \/ MetroToggleSlide
       \/ /\ metroPatterns[metroEditing].RootNote < 60 + MaxRootShift
          /\ \E dr \in Oracles : MetroRootUp(dr)
    /\ EditFrame
    /\ UNCHANGED <<drumVars, pianoVars>>

(***************************************************************************)
(* Initial states                                                          *)
(***************************************************************************)
\* NewDrumState: velocity 100, nothing active
DrumStep(active) == [Active |-> active, Velocity |-> 100]

\* a drum pattern whose lanes all have length len and whose active steps
\* are the (lane, step) pairs of on
DrumPatternOf(len, on) ==
    [n \in LaneIds |->
        [Length |-> len,
         Steps |-> [st \in 0..(MaxLaneLen - 1) |-> DrumStep(<<n, st>> \in on)]]]

\* no step, one step, or the first two steps of lane 0
DrumStepSets ==
    {{}} \cup {{<<n, st>>} : n \in LaneIds, st \in 0..(MaxLaneLen - 1)}
         \cup {{<<0, 0>>, <<0, 1>>}}

DrumInitShapes ==
    {DrumPatternOf(len, on) : len \in 1..MaxLaneLen, on \in DrumStepSets}

\* the patterns other than pattern 0 hold a fixed clip
DrumAltShapes == {DrumPatternOf(1, {<<0, 0>>})}

PianoNote(start, dur) ==
    [Start |-> start, Duration |-> dur, Pitch |-> 60, Velocity |-> 100]

\* no note, a short note, or a note that ends past a one-beat pattern
PianoInitShapes ==
    {[Notes |-> ns, Length |-> b * BeatDenom] :
        ns \in {<<>>, <<PianoNote(0, BeatDenom \div 4)>>,
                <<PianoNote(BeatDenom \div 2, BeatDenom)>>},
        b \in 1..MaxBeats}

PianoAltShapes ==
    {[Notes |-> <<PianoNote(0, BeatDenom \div 4)>>, Length |-> BeatDenom]}

\* NewMetropolixState: the default stage
DefaultStage(s) ==
    [Octave |-> 4, Note |-> s % 8, Gate |-> TRUE, PulseCount |-> 1,
     Ratchets |-> 1, Probability |-> 100, Slide |-> FALSE, GateLength |-> 3,
     Accumulator |-> 0, AccumReset |-> 0, AccumMode |-> 0]

DefaultMetroPattern ==
    [Stages |-> [s \in StageIds |-> DefaultStage(s)], Length |-> MaxStage + 1,
     Mode |-> ModeForward, Scale |-> 1, RootNote |-> 60, SlideTime |-> 3]

\* one stage or all of them, any of them with a slide
MetroInitShapes ==
    {[DefaultMetroPattern EXCEPT
          !.Length = len,
          !.Stages = [st \in StageIds |-> [@[st] EXCEPT !.Slide = st \in sl]]] :
        len \in {1, MaxStage + 1}, sl \in SUBSET StageIds}

MetroAltShapes == {[DefaultMetroPattern EXCEPT !.Length = 1]}

FreshRun ==
    [Stage |-> 0, Direction |-> 1, Accum |-> FreshAccum.Accum,
     AccumCount |-> FreshAccum.AccumCount, AccumDir |-> FreshAccum.AccumDir]

SysInit ==
    /\ playing = FALSE
    /\ Tick = 0
    /\ sent = <<>>
    /\ lastOp = NoOp
    /\ switch = NoOp
    /\ edits = 0
    /\ plays = 0
    /\ launches = 0
    /\ muted = [t \in 0..2 |-> FALSE]
    /\ lastCall = NoOp

\* NewDrumDevice
DrumInit ==
    /\ drumPlaying = 0
    /\ drumNext = 0
    /\ drumEditing = 0
    /\ schedule = [StartTick |-> 0, Patterns |-> <<0>>]
    /\ patternDirty = {}
    /\ drumQueue = <<>>

\* NewPianoRollDevice
PianoInit ==
    /\ pianoPattern = 0
    /\ pianoNext = 0
    /\ pianoEditing = 0
    /\ pianoQueue = <<>>
    /\ pianoQueuedUntilTick = 0
    /\ pianoPatternStartTick = 0
    /\ pianoNextPatternTick = -1

\* NewMetropolixDevice
MetroInit ==
    /\ metroPattern = 0
    /\ metroNext = -1
    /\ metroEditing = 0
    /\ metroSelected = 0
    /\ metroRun = FreshRun
    /\ metroQueue = <<>>
    /\ metroQueuedUntilTick = 0
    /\ metroPatternStartTick = 0
    /\ metroNextPatternTick = -1

DefaultDrumPatterns == [p \in PatternIds |-> DrumPatternOf(MaxLaneLen, {})]
DefaultPianoPatterns ==
    [p \in PatternIds |-> [Notes |-> <<>>, Length |-> BeatDenom]]
DefaultMetroPatterns == [p \in PatternIds |-> DefaultMetroPattern]

\* one track carries a device; its pattern data is whatever was edited
\* before
Init ==
    /\ SysInit
    /\ DrumInit
    /\ PianoInit
    /\ MetroInit
    /\ genLog = NoOp
    /\ \E t \in TrackIds :
          /\ trackType = [u \in TrackIds |->
                              IF u # t THEN "none"
                              ELSE IF t = DrumTrack THEN "drum"
                              ELSE IF t = PianoTrack THEN "piano"
                              ELSE "metropolix"]
          /\ IF t = DrumTrack
             THEN drumPatterns \in
                      {f \in [PatternIds -> DrumInitShapes] :
                          \A p \in PatternIds \ {0} : f[p] \in DrumAltShapes}
             ELSE drumPatterns = DefaultDrumPatterns
          /\ IF t = PianoTrack
             THEN pianoPatterns \in
                      {f \in [PatternIds -> PianoInitShapes] :
                          \A p \in PatternIds \ {0} : f[p] \in PianoAltShapes}
             ELSE pianoPatterns = DefaultPianoPatterns
          /\ IF t = MetroTrack
             THEN metroPatterns \in
                      {f \in [PatternIds -> MetroInitShapes] :
                          \A p \in PatternIds \ {0} : f[p] \in MetroAltShapes}
             ELSE metroPatterns = DefaultMetroPatterns

\* the session grid launches the patterns that exist
Next ==
    \/ Play
    \/ Stop
    \/ ClockTick
    \/ FillQueues
    \/ Dispatch
    \/ \E t \in TrackIds, p \in PatternIds : Launch(t, p)

Spec == Init /\ [][Next]_vars

\* QueuePattern as any caller may use it: indices off either end too
LaunchInputs == PatternIds \cup {-1, NumPatterns}

\* one track with a fixed clip in pattern 0
InitClip ==
    /\ Init
    /\ Present(DrumTrack) =>
          drumPatterns[0] = DrumPatternOf(MaxLaneLen, {<<0, 0>>})
    /\ Present(PianoTrack) =>
          pianoPatterns[0] = [Notes |-> <<PianoNote(BeatDenom \div 2,
                                                   BeatDenom)>>,
                              Length |-> BeatDenom]
    /\ Present(MetroTrack) => metroPatterns[0] = DefaultMetroPattern

NextClip ==
    \/ Play
    \/ Stop
    \/ ClockTick
    \/ FillQueues
    \/ Dispatch
    \/ \E t \in TrackIds, p \in LaunchInputs : Launch(t, p)

SpecClip == InitClip /\ [][NextClip]_vars

\* playback with pattern edits from the UI
NextEdit ==
    \/ Next
    \/ DrumEdit
    \/ PianoEdit
    \/ MetroEdit

SpecEdit == Init /\ [][NextEdit]_vars

(***************************************************************************)
(* Queue and dispatch properties (under Spec)                              *)
(***************************************************************************)
\* C1: in every reachable state the event queue of each device is sorted
\* by non-decreasing tick.
C1_QueuesSorted == \A t \in TrackIds : IsSortedByTick(QueueOf(t))

\* C2: the ticks of the dispatched events never decrease: every event
\* popped has a tick at or after that of the event popped before it.
C2_DispatchNonDecreasing ==
    \A j \in 2..Len(sent) : sent[j - 1].Tick <= sent[j].Tick

\* the active steps a drum pattern holds
ActiveSteps(pat) ==
    {ns \in LaneIds \X (0..(MaxLaneLen - 1)) : pat[ns[1]].Steps[ns[2]].Active}

\* all lanes of the pattern have length len
AllLanesOfLength(pat, len) == \A n \in LaneIds : pat[n].Length = len

\* C3: while a drum pattern whose lanes all have length L and whose one
\* active step is (lane i, step s) loops, the dispatcher emits exactly one
\* Trigger for lane i per cycle of L*240 ticks, at tick k*L*240 + s*240
\* for k = 0, 1, 2, ...: the j-th event dispatched is that of cycle j - 1.
C3_OneTriggerPerCycle ==
    (Present(DrumTrack) /\ playing /\ switch = NoOp /\ edits = 0)
    => \A len \in 1..MaxLaneLen, i \in LaneIds, s \in 0..(MaxLaneLen - 1) :
          (/\ s < len
           /\ AllLanesOfLength(drumPatterns[drumPlaying], len)
           /\ ActiveSteps(drumPatterns[drumPlaying]) = {<<i, s>>})
          => \A j \in 1..Len(sent) :
                /\ sent[j].Type = Trigger
                /\ sent[j].Note = i
                /\ sent[j].Tick = (j - 1) * len * (PPQ \div 4)
                                  + s * (PPQ \div 4)

\* the events a sequence holds
EventsOf(q) == {q[j] : j \in 1..Len(q)}

\* C4: after FillUntil(T) the filled-until watermark of each device is at
\* least T, and the queue holds every event the device will emit with
\* tick < T: as long as no pattern is launched or edited and playback is
\* not restarted, whatever a queue holds below T later on was in the
\* queue that FillUntil(T) left.
C4_FillCoversTarget ==
    [][/\ lastOp'.op = "FillUntil" =>
             \A t \in TrackIds :
                 Present(t)' => WatermarkOf(t)' >= lastOp'.tick
       /\ (lastOp.op = "FillUntil" /\ lastOp'.op = "FillUntil") =>
             \A t \in TrackIds :
                 \A e \in EventsOf(QueueOf(t)') :
                     e.Tick < lastOp.tick
                         => e \in EventsOf(lastOp.queues[t + 1])]_vars

\* a second round of FillUntil has appended to what the first left, on a
\* queue the dispatcher has popped from
C4_Witness ==
    /\ lastOp.op = "FillUntil"
    /\ lastOp.tick >= 2 * PPQ
    /\ Len(sent) >= 2
    /\ \E t \in TrackIds :
          /\ Present(t)
          /\ \E e \in EventsOf(QueueOf(t)) : e.Tick >= PPQ
          /\ WatermarkOf(t) >= lastOp.tick

\* C5: after QueuePattern(p, atTick), every event the device emits with
\* tick below the next pattern boundary is from the pattern playing
\* before, and every event emitted with tick at or after the boundary is
\* from pattern p (stated for the first switch requested since Play).
C5_SwitchAtBoundary ==
    switch.op = "QueuePattern"
    => \A j \in (switch.sentAt + 1)..Len(sent) :
          /\ sent[j].Tick < switch.boundary => sent[j].src.pat = switch.prev
          /\ sent[j].Tick >= switch.boundary => sent[j].src.pat = switch.p

(***************************************************************************)
(* The accumulator alone: applyAccumulator driven update by update on a    *)
(* stage whose accumulator, reset count and mode are drawn at the start    *)
(***************************************************************************)
AccumValues == (0 - 4)..3
AccumModes == 0..2
AccumStage == 0

AccumShapes ==
    {[DefaultMetroPattern EXCEPT !.Stages[AccumStage].Accumulator = a,
                                 !.Stages[AccumStage].AccumReset = r,
                                 !.Stages[AccumStage].AccumMode = m] :
        a \in AccumValues, r \in 0..MaxReset, m \in AccumModes}

\* genLog counts the updates each stage has had since its accumulator state
\* was fresh
InitAccum ==
    /\ SysInit
    /\ DrumInit
    /\ PianoInit
    /\ MetroInit
    /\ trackType = [u \in TrackIds |->
                        IF u = MetroTrack THEN "metropolix" ELSE "none"]
    /\ drumPatterns = DefaultDrumPatterns
    /\ pianoPatterns = DefaultPianoPatterns
    /\ \E shape \in AccumShapes :
          metroPatterns = [DefaultMetroPatterns EXCEPT ![0] = shape]
    /\ genLog = [op |-> "fresh", n |-> [i \in StageIds |-> 0]]

\* the end-of-stage update of GeneratePattern on stage i
ApplyAccumulatorStep(i) ==
    /\ genLog.n[i] < MaxApply
    /\ metroRun' = WithStageAcc(metroRun, i,
                       applyAccumulator(metroPatterns[metroPattern].Stages[i],
                                        StageAcc(metroRun, i)))
    /\ genLog' = [op |-> "applyAccumulator", n |-> [genLog.n EXCEPT ![i] = @ + 1]]
    /\ UNCHANGED <<sysVars, drumVars, pianoVars, metroPatterns, metroPattern,
                   metroNext, metroEditing, metroSelected, metroQueue,
                   metroQueuedUntilTick, metroPatternStartTick,
                   metroNextPatternTick>>

\* the accumulator state is reset (pattern change)
ResetAccumulatorsStep ==
    /\ genLog.op = "applyAccumulator"
    /\ metroRun' = ResetAccumulators(metroRun)
    /\ genLog' = [op |-> "ResetAccumulators", n |-> [i \in StageIds |-> 0]]
    /\ UNCHANGED <<sysVars, drumVars, pianoVars, metroPatterns, metroPattern,
                   metroNext, metroEditing, metroSelected, metroQueue,
                   metroQueuedUntilTick, metroPatternStartTick,
                   metroNextPatternTick>>

NextAccum ==
    \/ \E i \in StageIds : ApplyAccumulatorStep(i)
    \/ ResetAccumulatorsStep

SpecAccum == InitAccum /\ [][NextAccum]_vars

AccumParams == metroPatterns[metroPattern].Stages[AccumStage]
AccumUpdates == genLog.n[AccumStage]
AccumOffset == metroRun.Accum[AccumStage]

(***************************************************************************)
(* Accumulator properties (under SpecAccum)                                *)
(***************************************************************************)
\* C8: in Reset mode, with accumulator a # 0 and reset count r > 0, the
\* offset of a stage that started at 0 is 0 again after exactly r updates.
C8_ResetReturnsToZero ==
    (/\ AccumParams.AccumMode = 0
     /\ AccumParams.Accumulator # 0
     /\ AccumParams.AccumReset > 0
     /\ AccumUpdates = AccumParams.AccumReset)
    => AccumOffset = 0

\* the offset the code leaves after n ping-pong updates of a fresh stage:
\* the turn comes on every r-th update, which already steps the new way
PingPongOffset(a, r, n) ==
    LET m == n % (2 * r)
    IN  IF m < r THEN m * a ELSE (2 * r - 2 - m) * a

\* a triangle wave that reaches r * a before it turns
PingPongPeakAtR(a, r, n) ==
    LET m == n % (2 * r)
    IN  IF m <= r THEN m * a ELSE (2 * r - m) * a

C10_HoldKeepsOffset ==
    [][(/\ AccumParams.AccumMode = 2
        /\ AccumParams.AccumReset > 0
        /\ metroRun.AccumCount[AccumStage] >= AccumParams.AccumReset
        /\ genLog'.op = "applyAccumulator")
       => AccumOffset' = AccumOffset]_vars

\* a held stage with a non-zero offset that has had an update since its
\* count reached the reset value
C10_Witness ==
    /\ AccumParams.AccumMode = 2
    /\ AccumParams.Accumulator # 0
    /\ AccumParams.AccumReset >= 2
    /\ metroRun.AccumCount[AccumStage] = AccumParams.AccumReset
    /\ AccumUpdates > AccumParams.AccumReset
    /\ AccumOffset # 0

(***************************************************************************)
(* GeneratePattern alone: one faux cycle after another of a pattern whose  *)
(* stage parameters are drawn at the start                                 *)
(***************************************************************************)
GenProbabilities == {0, 50, 100}

\* stage 0 takes the drawn parameters; the other stages keep the defaults
\* on another scale degree, so that a slide has a pitch distance to cover
GenShapes ==
    {[DefaultMetroPattern EXCEPT !.Length = len,
                                 !.Mode = mode,
                                 !.Stages[0].Gate = gate,
                                 !.Stages[0].Ratchets = ratchets,
                                 !.Stages[0].Probability = pr,
                                 !.Stages[0].Slide = sl,
                                 !.Stages[0].Accumulator = a] :
        len \in 1..(MaxStage + 1), mode \in ModeForward..ModeRandom,
        gate \in BOOLEAN, ratchets \in 1..MaxRatchets,
        pr \in GenProbabilities, sl \in BOOLEAN, a \in {0, 1}}

InitGen ==
    /\ SysInit
    /\ DrumInit
    /\ PianoInit
    /\ MetroInit
    /\ trackType = [u \in TrackIds |->
                        IF u = MetroTrack THEN "metropolix" ELSE "none"]
    /\ drumPatterns = DefaultDrumPatterns
    /\ pianoPatterns = DefaultPianoPatterns
    /\ \E shape \in GenShapes :
          metroPatterns = [DefaultMetroPatterns EXCEPT ![0] = shape]
    /\ genLog = [op |-> "fresh", n |-> 0, events |-> <<>>, visits |-> <<>>]

\* one call of GeneratePattern on the playing pattern; genLog keeps the
\* events it returned and the stages it played
GenerateCycle ==
    /\ genLog.n < MaxGen
    /\ \E dr \in Oracles :
          \E g \in {MetroGeneratePattern(metroPatterns, metroPattern, metroRun,
                         genLog.n * fauxPatternTicks(metroPatterns,
                                                     metroPattern),
                         dr, 0)} :
             /\ metroRun' = g.run
             /\ genLog' = [op |-> "GeneratePattern", n |-> genLog.n + 1,
                           events |-> g.events, visits |-> g.visits]
    /\ UNCHANGED <<sysVars, drumVars, pianoVars, metroPatterns, metroPattern,
                   metroNext, metroEditing, metroSelected, metroQueue,
                   metroQueuedUntilTick, metroPatternStartTick,
                   metroNextPatternTick>>

NextGen == GenerateCycle

SpecGen == InitGen /\ [][NextGen]_vars

\* the stage parameters behind occurrence i (1-based) of the last cycle
OccStage(i) == metroPatterns[metroPattern].Stages[genLog.visits[i]]

\* the events of the last cycle that occurrence i produced
OccEvents(i) ==
    {j \in 1..Len(genLog.events) : genLog.events[j].src.occ = i - 1}

OccNotes(i, type) == {j \in OccEvents(i) : genLog.events[j].Type = type}

Occurrences == 1..Len(genLog.visits)

SlideLength == metroPatterns[metroPattern].SlideTime + 1

(***************************************************************************)
(* Generation properties (under SpecGen)                                   *)
(***************************************************************************)
\* C6 as stated: a stage whose gate is false produces no events at all in
\* the generated cycle.
C6_GateOffNoEvents ==
    \A i \in Occurrences : ~OccStage(i).Gate => OccEvents(i) = {}

\* C6, amended: a stage whose gate is false produces no NoteOn and no
\* NoteOff, whatever its ratchets, probability and accumulator; with its
\* slide flag set it still produces the SlideTime + 1 PitchBend events of
\* the slide into the next stage, and nothing else.
C6_GateOffNoNotes ==
    \A i \in Occurrences :
        ~OccStage(i).Gate =>
            /\ OccNotes(i, NoteOn) = {}
            /\ OccNotes(i, NoteOff) = {}
            /\ OccEvents(i) = OccNotes(i, PitchBend)
            /\ Cardinality(OccEvents(i)) \in {0, SlideLength}
            /\ (OccEvents(i) # {} => OccStage(i).Slide)

\* a gate-off stage with ratchets to play that has produced a slide
C6_Witness ==
    \E i \in Occurrences :
        /\ ~OccStage(i).Gate
        /\ OccStage(i).Ratchets >= 2
        /\ OccStage(i).Probability = 100
        /\ Cardinality(OccNotes(i, PitchBend)) = SlideLength

\* C7 as stated: a stage with probability 0 produces no events on any
\* occurrence; a stage with probability 100 and its gate on produces
\* exactly `ratchets` events on every occurrence.
C7_ProbabilityEventCount ==
    \A i \in Occurrences :
        /\ OccStage(i).Probability = 0 => OccEvents(i) = {}
        /\ (OccStage(i).Probability = 100 /\ OccStage(i).Gate)
               => Cardinality(OccEvents(i)) = OccStage(i).Ratchets

\* C7, amended: a stage with probability 0 produces no NoteOn and no
\* NoteOff on any occurrence; a stage with probability 100 and its gate on
\* produces exactly `ratchets` NoteOn events and as many NoteOff events on
\* every occurrence; in both cases a set slide flag adds the SlideTime + 1
\* PitchBend events of the slide and nothing else.
C7_ProbabilityNoteCount ==
    \A i \in Occurrences :
        /\ OccStage(i).Probability = 0 =>
               /\ OccNotes(i, NoteOn) = {}
               /\ OccNotes(i, NoteOff) = {}
        /\ (OccStage(i).Probability = 100 /\ OccStage(i).Gate) =>
               /\ Cardinality(OccNotes(i, NoteOn)) = OccStage(i).Ratchets
               /\ Cardinality(OccNotes(i, NoteOff)) = OccStage(i).Ratchets
        /\ OccStage(i).Probability \in {0, 100} =>
               /\ OccEvents(i) = OccNotes(i, NoteOn) \cup OccNotes(i, NoteOff)
                                     \cup OccNotes(i, PitchBend)
               /\ Cardinality(OccNotes(i, PitchBend)) \in {0, SlideLength}

\* a cycle in which a probability-100 stage played two ratchets and slid,
\* after a cycle already played
C7_Witness ==
    /\ genLog.n = MaxGen
    /\ \E i \in Occurrences :
          /\ OccStage(i).Probability = 100
          /\ OccStage(i).Gate
          /\ OccStage(i).Ratchets = 2
          /\ Cardinality(OccNotes(i, NoteOn)) = 2
          /\ Cardinality(OccNotes(i, PitchBend)) = SlideLength

(***************************************************************************)
(* Slides: FillUntil, one faux cycle per call, on a pattern whose stages   *)
(* lie octaves apart and whose slide time is drawn from its whole range    *)
(***************************************************************************)
SlideTimes == 1..8
Octaves == 0..7

\* the first stage stays in the middle octave, the others take the drawn
\* octave; any of the stages slides
SlideShapes ==
    {[DefaultMetroPattern EXCEPT
          !.Length = len,
          !.SlideTime = t,
          !.Stages = [st \in StageIds |->
                         [@[st] EXCEPT !.Slide = st \in sl,
                                       !.Octave = IF st = 0 THEN 4 ELSE oct]]] :
        len \in {1, MaxStage + 1}, t \in SlideTimes, oct \in Octaves,
        sl \in SUBSET StageIds}

InitSlide ==
    /\ SysInit
    /\ DrumInit
    /\ PianoInit
    /\ MetroInit
    /\ trackType = [u \in TrackIds |->
                        IF u = MetroTrack THEN "metropolix" ELSE "none"]
    /\ drumPatterns = DefaultDrumPatterns
    /\ pianoPatterns = DefaultPianoPatterns
    /\ \E shape \in SlideShapes :
          metroPatterns = [DefaultMetroPatterns EXCEPT ![0] = shape]
    /\ genLog = [op |-> "fresh", n |-> 0, events |-> <<>>, visits |-> <<>>,
                 base |-> 0]

\* FillUntil to just past the watermark: the loop generates one cycle and
\* appends it; genLog keeps what that call of GeneratePattern returned, the
\* stages it played and the tick it started from
FillCycle ==
    /\ genLog.n < MaxGen
    /\ \E dr \in OraclesFor(metroPatterns) :
          /\ MetroFillUntil(metroQueuedUntilTick + 1, dr)
          /\ \E g \in {MetroGeneratePattern(metroPatterns, metroPattern,
                           metroRun, metroQueuedUntilTick, dr, 0)} :
                genLog' = [op |-> "FillUntil", n |-> genLog.n + 1,
                           events |-> g.events, visits |-> g.visits,
                           base |-> metroQueuedUntilTick]
    /\ UNCHANGED <<sysVars, drumVars, pianoVars>>

NextSlide == FillCycle

SpecSlide == InitSlide /\ [][NextSlide]_vars

\* the stage that follows occurrence i of the last cycle
OccNext(i) ==
    IF i < Len(genLog.visits) THEN genLog.visits[i + 1] ELSE metroRun.Stage

\* the tick at which occurrence i of the last cycle ends
RECURSIVE OccEndTick(_)
OccEndTick(i) ==
    IF i = 0 THEN genLog.base
    ELSE OccEndTick(i - 1) + OccStage(i).PulseCount * (PPQ \div 4)

\* the PitchBend events of occurrence i, in the order generated
OccBends(i) ==
    SelectSeq(genLog.events,
              LAMBDA e : e.src.occ = i - 1 /\ e.Type = PitchBend)

\* pitch of a stage of the playing pattern under the current accumulators
StagePitch(st) ==
    calculatePitch(metroPatterns[metroPattern], metroRun.Accum, st)

\* occurrence i slides: its stage has the slide flag and another stage
\* follows it
OccSlides(i) == OccStage(i).Slide /\ OccNext(i) # genLog.visits[i]

(***************************************************************************)
(* Slide properties (under SpecSlide)                                      *)
(***************************************************************************)
\* C11: a stage with slide = true that is followed by a different stage
\* emits exactly slide_time PitchBend events at ticks stage_end + k for
\* k = 0..slide_time-1 whose bend value is (pitch_next - pitch_current) *
\* 4096 * k / slide_time cut to an integer, and after them one PitchBend
\* with value 0 at tick stage_end + slide_time.
C11_SlideRamp ==
    \A i \in Occurrences :
        OccSlides(i) =>
            LET t == metroPatterns[metroPattern].SlideTime
                b == OccBends(i)
                d == StagePitch(OccNext(i)) - StagePitch(genLog.visits[i])
            IN  /\ Len(b) = t + 1
                /\ \A k \in 0..(t - 1) :
                      /\ b[k + 1].Tick = OccEndTick(i) + k
                      /\ b[k + 1].BendValue = TruncDiv(d * 4096 * k, t)
                /\ b[t + 1].Tick = OccEndTick(i) + t
                /\ b[t + 1].BendValue = 0

\* C12: every PitchBend event in a device queue carries a bend value
\* within [-8192, 8191].
C12_BendInRange ==
    \A t \in TrackIds :
        \A e \in EventsOf(QueueOf(t)) :
            e.Type = PitchBend => e.BendValue \in (0 - 8192)..8191

(***************************************************************************)
(* Polymeter: a drum pattern whose lanes have lengths of their own, each   *)
(* lane with one active step, filled while the clock runs                  *)
(***************************************************************************)
\* the longest lane of a polymetric pattern
PolyLen == MaxLaneLen + 1

\* lane n has length lens[n] and its one active step is step at[n]
PolyPatternOf(lens, at) ==
    [n \in LaneIds |->
        [Length |-> lens[n],
         Steps |-> [st \in 0..(PolyLen - 1) |-> DrumStep(st = at[n])]]]

PolyShapes ==
    {PolyPatternOf(lens, at) :
        lens \in [LaneIds -> 1..PolyLen],
        at \in [LaneIds -> 0..(PolyLen - 1)]}

InitPoly ==
    /\ playing = TRUE
    /\ muted = [t \in TrackIds |-> FALSE]
    /\ lastCall = NoOp
    /\ Tick = 0
    /\ sent = <<>>
    /\ lastOp = NoOp
    /\ switch = NoOp
    /\ edits = 0
    /\ plays = 1
    /\ launches = 0
    /\ DrumInit
    /\ PianoInit
    /\ MetroInit
    /\ trackType = [u \in TrackIds |->
                        IF u = DrumTrack THEN "drum" ELSE "none"]
    /\ \E shape \in PolyShapes :
          drumPatterns = [DefaultDrumPatterns EXCEPT ![0] = shape]
    /\ pianoPatterns = DefaultPianoPatterns
    /\ metroPatterns = DefaultMetroPatterns
    /\ genLog = NoOp

\* the wall clock and S.Tick move on by a step
PolyClock ==
    /\ Tick + TicksPerStep <= HorizonTick
    /\ Tick' = Tick + TicksPerStep
    /\ UNCHANGED <<playing, sent, lastOp, switch, trackType, muted,
                   lastCall, edits, plays,
                   launches, drumVars, pianoVars, metroVars, genLog>>

\* the queue manager calls FillUntil on the drum device
PolyFill ==
    /\ DrumFillUntil(Tick + LookAheadTicks)
    /\ genLog' = [op |-> "FillUntil"]
    /\ UNCHANGED <<sysVars, pianoVars, metroVars>>

NextPoly == PolyClock \/ PolyFill

SpecPoly == InitPoly /\ [][NextPoly]_vars

\* the steps, counted from the start of playback, that the schedule covers
ScheduledSteps ==
    (schedule.StartTick \div (PPQ \div 4))
        ..((scheduleEndTick(drumPatterns, schedule) \div (PPQ \div 4)) - 1)

\* the steps at which the queue holds a Trigger of lane n
LaneSteps(n) ==
    {e.Tick \div (PPQ \div 4) : e \in {x \in EventsOf(drumQueue) : x.Note = n}}

\* the active steps of lane n of the playing pattern, within its length
LaneActive(n) ==
    {a \in 0..(drumPatterns[drumPlaying][n].Length - 1) :
        drumPatterns[drumPlaying][n].Steps[a].Active}

(***************************************************************************)
(* Polymeter properties (under SpecPoly)                                   *)
(***************************************************************************)
\* C13: while one drum pattern loops, a lane of length L with one active
\* step a fires at exactly the steps g, counted from the start of
\* playback, with g mod L = a, also across repetitions of the pattern:
\* the queue FillUntil builds holds the lane's Triggers at those steps of
\* the scheduled range and at no others.
C13_LanesWrapAtOwnLength ==
    genLog.op = "FillUntil" =>
        \A n \in LaneIds : \A a \in 0..(PolyLen - 1) :
            LaneActive(n) = {a} =>
                LaneSteps(n) =
                    {g \in ScheduledSteps :
                        g % drumPatterns[drumPlaying][n].Length = a}

(***************************************************************************)
(* Piano roll alone: FillUntil, one cycle per call, on a looping pattern   *)
(***************************************************************************)
\* note starts and durations, in 64ths of a beat
LoopStarts == {0, BeatDenom \div 4, BeatDenom \div 2, BeatDenom}
LoopDurations == {BeatDenom \div 4, BeatDenom}

PianoNoteAt(start, dur, pitch) ==
    [Start |-> start, Duration |-> dur, Pitch |-> pitch, Velocity |-> 100]

\* one note, or two notes of different pitch in the order of their starts
LoopNoteLists ==
    {<<PianoNoteAt(s, d, 60)>> : s \in LoopStarts, d \in LoopDurations}
    \cup UNION {{<<PianoNoteAt(s1, d1, 60), PianoNoteAt(s2, d2, 62)>> :
                    d1 \in LoopDurations,
                    s2 \in {x \in LoopStarts : x >= s1},
                    d2 \in LoopDurations} : s1 \in LoopStarts}

LoopShapes ==
    {[Length |-> len * BeatDenom, Notes |-> notes] :
        len \in 1..MaxBeats, notes \in LoopNoteLists}

InitLoop ==
    /\ SysInit
    /\ DrumInit
    /\ PianoInit
    /\ MetroInit
    /\ trackType = [u \in TrackIds |->
                        IF u = PianoTrack THEN "piano" ELSE "none"]
    /\ drumPatterns = DefaultDrumPatterns
    /\ metroPatterns = DefaultMetroPatterns
    /\ \E shape \in LoopShapes :
          pianoPatterns = [DefaultPianoPatterns EXCEPT ![0] = shape]
    /\ genLog = [op |-> "fresh", n |-> 0]

\* FillUntil to just past the watermark: the loop appends one cycle
LoopFill ==
    /\ genLog.n <= MaxGen
    /\ PianoFillUntil(pianoQueuedUntilTick + 1)
    /\ genLog' = [op |-> "FillUntil", n |-> genLog.n + 1]
    /\ UNCHANGED <<sysVars, drumVars, metroVars>>

NextLoop == LoopFill

SpecLoop == InitLoop /\ [][NextLoop]_vars

\* the cycles of the playing pattern the queue has been filled with
LoopCycles ==
    pianoQueuedUntilTick \div ((pianoPatterns[pianoPattern].Length * PPQ)
                                  \div BeatDenom)

\* how many events of the queue have this tick, type, pitch and velocity
CountInQueue(tick, type, pitch, vel) ==
    Cardinality({q \in 1..Len(pianoQueue) :
                    /\ pianoQueue[q].Tick = tick
                    /\ pianoQueue[q].Type = type
                    /\ pianoQueue[q].Note = pitch
                    /\ pianoQueue[q].Velocity = vel})

(***************************************************************************)
(* Piano generation properties (under SpecLoop)                            *)
(***************************************************************************)
\* C14: for a pattern of length len beats, each note {start, duration,
\* pitch, vel} yields in the cycle that starts at base tick b exactly one
\* NoteOn(pitch, vel) at tick b + start * PPQ and one NoteOff(pitch) at
\* tick b + (start + duration) * PPQ, the cycles start every len * PPQ
\* ticks, and the queue holds nothing else.
C14_PianoNotePairs ==
    LET pat == pianoPatterns[pianoPattern]
        lenTicks == (pat.Length * PPQ) \div BeatDenom
    IN  /\ Len(pianoQueue) = 2 * Len(pat.Notes) * LoopCycles
        /\ \A c \in 0..(LoopCycles - 1) : \A j \in 1..Len(pat.Notes) :
              LET note == pat.Notes[j]
                  b == c * lenTicks
              IN  /\ CountInQueue(b + (note.Start * PPQ) \div BeatDenom,
                                  NoteOn, note.Pitch, note.Velocity) = 1
                  /\ CountInQueue(
                         b + ((note.Start + note.Duration) * PPQ)
                                 \div BeatDenom,
                         NoteOff, note.Pitch, 0) = 1

\* three cycles of a two-note pattern whose second note starts late and
\* ends past the pattern end
C14_Witness ==
    /\ LoopCycles >= 3
    /\ Len(pianoPatterns[pianoPattern].Notes) = 2
    /\ \E j \in 1..2 :
          LET note == pianoPatterns[pianoPattern].Notes[j]
          IN  /\ note.Start > 0
              /\ note.Start + note.Duration > pianoPatterns[pianoPattern].Length
    /\ Len(pianoQueue) = 12


(***************************************************************************)
(* Three tracks together: dispatch order, mute, Play and Stop              *)
(***************************************************************************)
\* two lanes that fire on the same step, or one late step
MixDrumShapes ==
    {DrumPatternOf(1, {<<0, 0>>, <<1, 0>>}),
     DrumPatternOf(MaxLaneLen, {<<0, MaxLaneLen - 1>>})}

\* a project with a drum, a piano roll and a metropolix track, any of them
\* muted
InitMix ==
    /\ playing = FALSE
    /\ Tick = 0
    /\ sent = <<>>
    /\ lastOp = NoOp
    /\ switch = NoOp
    /\ edits = 0
    /\ plays = 0
    /\ launches = 0
    /\ lastCall = NoOp
    /\ muted \in [TrackIds -> BOOLEAN]
    /\ DrumInit
    /\ PianoInit
    /\ MetroInit
    /\ genLog = NoOp
    /\ trackType = [u \in TrackIds |->
                        IF u = DrumTrack THEN "drum"
                        ELSE IF u = PianoTrack THEN "piano"
                        ELSE "metropolix"]
    /\ \E d \in MixDrumShapes :
          drumPatterns = [p \in PatternIds |->
                             IF p = 0 THEN d
                             ELSE DrumPatternOf(1, {<<0, 0>>})]
    /\ pianoPatterns = [p \in PatternIds |->
                           [Notes |-> <<PianoNote(0, BeatDenom \div 4)>>,
                            Length |-> BeatDenom]]
    /\ metroPatterns = [p \in PatternIds |->
                           [DefaultMetroPattern EXCEPT !.Length = 1]]

NextMix ==
    \/ Play
    \/ PlayIgnored
    \/ Stop
    \/ ClockTick
    \/ FillQueues
    \/ Dispatch

SpecMix == InitMix /\ [][NextMix]_vars

\* a step in which the dispatcher sent one more event
DispatchStep == Len(sent') = Len(sent) + 1

\* the queue of track t, whatever its mute flag
RawQueue(t) ==
    IF t = DrumTrack THEN drumQueue
    ELSE IF t = PianoTrack THEN pianoQueue
    ELSE metroQueue

\* C15: whenever the dispatcher sends an event, it is the head of the
\* queue of a track that is not muted, that head has the smallest tick
\* among the heads of the non-muted tracks, no non-muted track of lower
\* index has a head of the same tick, and the event is popped from the
\* front of its queue, so that events of one device with equal ticks leave
\* in queue order.
C15_SmallestTickLowestIndex ==
    [][DispatchStep =>
          \E t \in TrackIds :
             /\ ~muted[t]
             /\ RawQueue(t) # <<>>
             /\ sent'[Len(sent')] = RawQueue(t)[1]
             /\ RawQueue(t)' = Tail(RawQueue(t))
             /\ \A u \in TrackIds \ {t} :
                   /\ RawQueue(u)' = RawQueue(u)
                   /\ (~muted[u] /\ RawQueue(u) # <<>>) =>
                         \/ RawQueue(t)[1].Tick < RawQueue(u)[1].Tick
                         \/ /\ RawQueue(t)[1].Tick = RawQueue(u)[1].Tick
                            /\ t < u]_vars

\* three heads of equal tick were sent in track order, the two drum
\* triggers of one step in lane order
C15_Witness ==
    /\ Len(sent) >= 4
    /\ sent[1].Type = Trigger /\ sent[2].Type = Trigger
    /\ sent[1].Note # sent[2].Note
    /\ sent[3].Type = NoteOn /\ sent[4].Type = NoteOn
    /\ sent[3].src.stage = -1 /\ sent[4].src.stage >= 0
    /\ \A i \in 1..4 : sent[i].Tick = 0

\* C16: a muted track is silent and costs the others nothing. In every
\* step in which the dispatcher sends an event, the queue of each muted
\* track is left as it was and the event is popped from the queue of a
\* track that is not muted; and whenever playback runs and a non-muted
\* track has a head event whose tick has come, the dispatcher can send,
\* whatever the muted tracks' queues hold.
C16_MutedTrackSilent ==
    /\ [][DispatchStep =>
             /\ \A t \in TrackIds : muted[t] => RawQueue(t)' = RawQueue(t)
             /\ \E u \in TrackIds :
                   /\ ~muted[u]
                   /\ RawQueue(u) # <<>>
                   /\ sent'[Len(sent')] = RawQueue(u)[1]
                   /\ RawQueue(u)' = Tail(RawQueue(u))]_vars
    /\ []((/\ playing
           /\ Len(sent) < MaxSent
           /\ \E u \in TrackIds :
                 /\ ~muted[u]
                 /\ RawQueue(u) # <<>>
                 /\ RawQueue(u)[1].Tick <= Tick)
          => ENABLED Dispatch)

\* the muted drum track holds events that are overdue while events of the
\* other tracks, later ones too, have been sent
C16_Witness ==
    /\ muted[DrumTrack]
    /\ ~muted[PianoTrack] /\ ~muted[MetroTrack]
    /\ drumQueue # <<>>
    /\ drumQueue[1].Tick < Tick
    /\ Len(sent) >= 3
    /\ sent[Len(sent)].Tick > drumQueue[1].Tick
    /\ \A i \in 1..Len(sent) : sent[i].Type # Trigger

\* a step in which Play was called
PlayCalled == lastCall'.op = "Play" /\ lastCall' # lastCall

\* C17: a Play call that comes while playback runs changes nothing: the
\* playing flag, the tick (the time since the anchor), the number of
\* playbacks started, what has been sent and every variable of every
\* device, the queues among them, are as before.
C17_PlayWhilePlayingNoOp ==
    [][(playing /\ PlayCalled) =>
          UNCHANGED <<playing, Tick, plays, sent, lastOp, switch, drumVars,
                      pianoVars, metroVars>>]_vars

\* Play came in the middle of playback, with events sent and events queued
C17_Witness ==
    /\ lastCall = Call("Play", TRUE, 0, Tick)
    /\ playing
    /\ Tick > 0
    /\ Len(sent) > 0
    /\ \E t \in TrackIds : RawQueue(t) # <<>>

\* a step in which Stop was called during playback
StopCalled == lastCall'.op = "Stop" /\ lastCall' # lastCall

ClearQueueCalled ==
    /\ lastCall'.op \in {"Play", "Stop"}
    /\ ~lastCall'.ignored
    /\ lastCall' # lastCall

\* the first round of FillUntil after the ClearQueue calls of Play
FirstFillAfterClear ==
    /\ lastCall.op = "Play"
    /\ lastOp.op # "FillUntil"
    /\ lastOp'.op = "FillUntil"

IsPrefixOf(p, q) == Len(p) <= Len(q) /\ SubSeq(q, 1, Len(p)) = p

\* C19: ClearQueue leaves every device with an empty queue, the
\* filled-until and pattern-start ticks at 0 and no switch pending
\* (nextPatternTick -1; the drum schedule holds the playing pattern alone,
\* from tick 0), and the FillUntil that follows starts the queue with the
\* events the playing pattern generates from tick 0.
C19_ClearQueueCleanStart ==
    /\ [][ClearQueueCalled =>
             /\ drumQueue' = <<>>
             /\ schedule' = [StartTick |-> 0, Patterns |-> <<drumPlaying'>>]
             /\ scheduleEndTick(drumPatterns', schedule')
                   = drumPatternLengthTicks(drumPatterns', drumPlaying')
             /\ pianoQueue' = <<>>
             /\ pianoQueuedUntilTick' = 0
             /\ pianoPatternStartTick' = 0
             /\ pianoNextPatternTick' = -1
             /\ metroQueue' = <<>>
             /\ metroQueuedUntilTick' = 0
             /\ metroPatternStartTick' = 0
             /\ metroNextPatternTick' = -1]_vars
    /\ [][FirstFillAfterClear =>
             /\ Present(DrumTrack) =>
                   IsPrefixOf(DrumGeneratePattern(drumPatterns, drumPlaying,
                                                  0),
                              drumQueue')
             /\ Present(PianoTrack) =>
                   IsPrefixOf(PianoGeneratePattern(pianoPatterns,
                                                   pianoPattern, 0),
                              pianoQueue')
             /\ Present(MetroTrack) =>
                   \E dr \in Oracles :
                      IsPrefixOf(MetroGeneratePattern(metroPatterns,
                                     metroPattern, metroRun, 0, dr, 0).events,
                                 metroQueue')]_vars

\* the second playback: Stop came with a switch pending and the queue
\* filled, Play followed, and the queue has been filled from tick 0 again
C19_Witness ==
    /\ plays = 2
    /\ launches = 1
    /\ playing
    /\ lastCall.op = "Play"
    /\ lastOp.op = "FillUntil"
    /\ \E t \in TrackIds :
          /\ Present(t)
          /\ RawQueue(t) # <<>>
          /\ RawQueue(t)[1].Tick = 0
    /\ \/ Present(DrumTrack) /\ drumNext # drumPlaying
       \/ Present(PianoTrack) /\ pianoNext # pianoPattern
       \/ Present(MetroTrack) /\ metroNext \notin {-1, metroPattern}

\* a step in which QueuePattern was called with an index outside 0..127
QueuePatternOutOfRange ==
    /\ lastCall'.op = "QueuePattern"
    /\ lastCall' # lastCall
    /\ (lastCall'.p < 0 \/ lastCall'.p >= NumPatterns)

\* C20: QueuePattern with p < 0 or p >= 128 changes nothing on any device:
\* the playing pattern, the requested pattern, the pending switch tick,
\* the drum schedule, the queue and every other variable of the devices
\* are as before.
C20_OutOfRangeIgnored ==
    [][QueuePatternOutOfRange =>
          /\ UNCHANGED <<drumPlaying, drumNext, schedule, drumQueue>>
          /\ UNCHANGED <<pianoPattern, pianoNext, pianoNextPatternTick,
                         pianoQueue>>
          /\ UNCHANGED <<metroPattern, metroNext, metroNextPatternTick,
                         metroQueue>>
          /\ UNCHANGED <<drumVars, pianoVars, metroVars>>]_vars

\* index 128 was requested while a switch was pending and events were
\* queued
C20_Witness ==
    /\ lastCall.op = "QueuePattern"
    /\ lastCall.p = NumPatterns
    /\ launches = 1
    /\ switch.op = "QueuePattern"
    /\ RawQueue(lastCall.track) # <<>>
    /\ \/ lastCall.track = DrumTrack /\ Len(schedule.Patterns) > 1
       \/ lastCall.track = PianoTrack /\ pianoNextPatternTick >= 0
       \/ lastCall.track = MetroTrack /\ metroNextPatternTick >= 0

(***************************************************************************)
(* One device: FillUntil and QueuePattern as the clock moves               *)
(***************************************************************************)
\* S.Tick is read anywhere within a step
OffGrid == {0, 100}

\* the wall clock and S.Tick move on by a step
SwitchClock ==
    /\ Tick + TicksPerStep <= HorizonTick
    /\ Tick' = Tick + TicksPerStep
    /\ UNCHANGED <<playing, sent, lastOp, switch, trackType, muted,
                   lastCall, edits, plays, launches, drumVars, pianoVars,
                   metroVars, genLog>>

\* the queue manager calls FillUntil on the device; genLog keeps the tick
\* and the target of the call
SwitchFill ==
    /\ LET target == Tick + LookAheadTicks
       IN  /\ IF Present(DrumTrack) THEN DrumFillUntil(target)
              ELSE UNCHANGED drumVars
           /\ IF Present(PianoTrack) THEN PianoFillUntil(target)
              ELSE UNCHANGED pianoVars
           /\ IF Present(MetroTrack)
              THEN \E dr \in OraclesFor(metroPatterns) :
                      MetroFillUntil(target, dr)
              ELSE UNCHANGED metroVars
           /\ genLog' = [op |-> "FillUntil", tick |-> Tick, target |-> target]
    /\ UNCHANGED sysVars

\* SessionDevice.queuePattern: QueuePattern(p, S.Tick) on the device of
\* track t; genLog keeps the arguments and the number of the call
SwitchQueue(t, p, d) ==
    /\ Present(t)
    /\ launches < MaxSwitches
    /\ launches' = launches + 1
    /\ IF t = DrumTrack
       THEN DrumQueuePattern(p, Tick + d) /\ UNCHANGED <<pianoVars, metroVars>>
       ELSE IF t = PianoTrack
       THEN PianoQueuePattern(p, Tick + d) /\ UNCHANGED <<drumVars, metroVars>>
       ELSE MetroQueuePattern(p, Tick + d) /\ UNCHANGED <<drumVars, pianoVars>>
    /\ genLog' = [op |-> "QueuePattern", track |-> t, p |-> p,
                  at |-> Tick + d, n |-> launches + 1]
    /\ UNCHANGED <<playing, Tick, sent, lastOp, switch, trackType, muted,
                   lastCall, edits, plays>>

NextSwitch ==
    \/ SwitchClock
    \/ SwitchFill
    \/ \E t \in TrackIds, p \in PatternIds, d \in OffGrid : SwitchQueue(t, p, d)

SpecSwitch == InitClip /\ [][NextSwitch]_vars

\* a step in which QueuePattern was called on the piano roll or the
\* metropolix
QueuePatternCalled(t) ==
    /\ genLog'.op = "QueuePattern"
    /\ genLog' # genLog
    /\ genLog'.track = t

CeilDiv(a, b) == (a + b - 1) \div b

\* C21 as stated: the boundary QueuePattern chooses on the piano roll and
\* on the metropolix is patternStart + ceil((atTick - patternStart) /
\* patternTicks) * patternTicks whenever atTick >= patternStart, so that an
\* atTick on a boundary is its own switch point.
C21_BoundaryIsCeil ==
    [][/\ (QueuePatternCalled(PianoTrack)
              /\ genLog'.at >= pianoPatternStartTick) =>
             LET pt == pianoPatternLengthTicks(pianoPatterns, pianoPattern)
             IN  pianoNextPatternTick'
                    = pianoPatternStartTick
                      + CeilDiv(genLog'.at - pianoPatternStartTick, pt) * pt
       /\ (QueuePatternCalled(MetroTrack)
              /\ genLog'.at >= metroPatternStartTick) =>
             LET pt == fauxPatternTicks(metroPatterns, metroPattern)
             IN  metroNextPatternTick'
                    = metroPatternStartTick
                      + CeilDiv(genLog'.at - metroPatternStartTick, pt) * pt
      ]_vars

\* C21, amended: the boundary chosen is the first pattern boundary after
\* atTick, patternStart + (floor((atTick - patternStart) / patternTicks)
\* + 1) * patternTicks, whenever atTick >= patternStart; an atTick on a
\* boundary selects the boundary one pattern length later.
C21_BoundaryIsNextAfter ==
    [][/\ (QueuePatternCalled(PianoTrack)
              /\ genLog'.at >= pianoPatternStartTick) =>
             LET pt == pianoPatternLengthTicks(pianoPatterns, pianoPattern)
             IN  pianoNextPatternTick'
                    = pianoPatternStartTick
                      + (((genLog'.at - pianoPatternStartTick) \div pt) + 1)
                        * pt
       /\ (QueuePatternCalled(MetroTrack)
              /\ genLog'.at >= metroPatternStartTick) =>
             LET pt == fauxPatternTicks(metroPatterns, metroPattern)
             IN  metroNextPatternTick'
                    = metroPatternStartTick
                      + (((genLog'.at - metroPatternStartTick) \div pt) + 1)
                        * pt
      ]_vars

\* QueuePattern was called at a tick on a boundary of a pattern that
\* started after tick 0, and the switch waits for the next boundary
C21_Witness ==
    /\ genLog.op = "QueuePattern"
    /\ \/ /\ genLog.track = PianoTrack
          /\ pianoPatternStartTick > 0
          /\ genLog.at > pianoPatternStartTick
          /\ (genLog.at - pianoPatternStartTick)
                % pianoPatternLengthTicks(pianoPatterns, pianoPattern) = 0
          /\ pianoNextPatternTick
                = genLog.at
                  + pianoPatternLengthTicks(pianoPatterns, pianoPattern)
       \/ /\ genLog.track = MetroTrack
          /\ metroPatternStartTick > 0
          /\ genLog.at > metroPatternStartTick
          /\ (genLog.at - metroPatternStartTick)
                % fauxPatternTicks(metroPatterns, metroPattern) = 0
          /\ metroNextPatternTick
                = genLog.at + fauxPatternTicks(metroPatterns, metroPattern)

\* C22: when QueuePattern(p, atTick) returns on the piano roll or on the
\* metropolix, the queue holds no event at or after the boundary, it holds
\* the events below the boundary that were queued before the call, in
\* their order, the filled-until tick is at most the boundary and
\* nextPatternTick is the boundary.
C22_TruncatedAtBoundary ==
    [][/\ QueuePatternCalled(PianoTrack) =>
             LET b == BoundaryTick(pianoPatternStartTick,
                          pianoPatternLengthTicks(pianoPatterns, pianoPattern),
                          genLog'.at)
             IN  /\ \A i \in 1..Len(pianoQueue') : pianoQueue'[i].Tick < b
                 /\ SelectTickBelow(pianoQueue', b) = SelectTickBelow(pianoQueue, b)
                 /\ pianoQueuedUntilTick' <= b
                 /\ pianoNextPatternTick' = b
       /\ QueuePatternCalled(MetroTrack) =>
             LET b == BoundaryTick(metroPatternStartTick,
                          fauxPatternTicks(metroPatterns, metroPattern),
                          genLog'.at)
             IN  /\ \A i \in 1..Len(metroQueue') : metroQueue'[i].Tick < b
                 /\ SelectTickBelow(metroQueue', b) = SelectTickBelow(metroQueue, b)
                 /\ metroQueuedUntilTick' <= b
                 /\ metroNextPatternTick' = b
      ]_vars

\* the tick at which slot j of a schedule starts (j = Len + 1: its end)
SlotStartTick(pats, sch, j) ==
    sch.StartTick + SumPatternTicks(pats, SubSeq(sch.Patterns, 1, j - 1))

\* slot k of the schedule contains the tick
SlotContains(pats, sch, k, tick) ==
    /\ k \in 1..Len(sch.Patterns)
    /\ SlotStartTick(pats, sch, k) <= tick
    /\ tick < SlotStartTick(pats, sch, k + 1)

\* the pattern slot j held before the call; beyond the old schedule, the
\* repeat of its last pattern that extendSchedule supplies
SlotBefore(sch, j) ==
    IF j <= Len(sch.Patterns) THEN sch.Patterns[j]
    ELSE sch.Patterns[Len(sch.Patterns)]

\* the drum QueuePattern call kept StartTick, kept the slot containing
\* atTick and every earlier slot, and made every later slot p, appending
\* one slot when there was none
DrumSlotsReplaced ==
    LET p == genLog'.p
        at == genLog'.at
        old == schedule
        new == schedule'
    IN  /\ new.StartTick = old.StartTick
        /\ \E k \in 1..Len(new.Patterns) :
              /\ SlotContains(drumPatterns, new, k, at)
              /\ \A j \in 1..k : new.Patterns[j] = SlotBefore(old, j)
              /\ Len(new.Patterns) > k
              /\ \A j \in (k + 1)..Len(new.Patterns) : new.Patterns[j] = p
              /\ Len(new.Patterns)
                    = IF Len(old.Patterns) > k + 1 THEN Len(old.Patterns)
                      ELSE k + 1

\* C23: drum QueuePattern(p, atTick) with a valid p replaces every schedule
\* slot after the slot containing atTick by p, appending one slot of p when
\* there is none, and leaves StartTick, the slot containing atTick and all
\* earlier slots unchanged.
C23_SlotsAfterReplaced ==
    [][QueuePatternCalled(DrumTrack) => DrumSlotsReplaced]_vars

\* the same for the calls whose atTick lies before the end of the schedule
\* as extendSchedule leaves it
C23_SlotsAfterReplacedInside ==
    [][(/\ QueuePatternCalled(DrumTrack)
        /\ genLog'.at < scheduleEndTick(drumPatterns,
                            extendSchedule(drumPatterns, schedule, genLog'.at)))
          => DrumSlotsReplaced]_vars


(***************************************************************************)
(* Metropolix accumulators across cycles, ClearQueue and pattern switches  *)
(***************************************************************************)
\* FillUntil to just past the watermark: one cycle is generated, after the
\* pattern switch when one is due; genLog says whether it was
CarryFill ==
    /\ metroQueuedUntilTick < HorizonTick
    /\ \E dr \in OraclesFor(metroPatterns) :
          MetroFillUntil(metroQueuedUntilTick + 1, dr)
    /\ genLog' = [op |-> "FillUntil",
                  switched |-> /\ metroNextPatternTick >= 0
                               /\ metroQueuedUntilTick >= metroNextPatternTick,
                  at |-> metroQueuedUntilTick]
    /\ UNCHANGED <<sysVars, drumVars, pianoVars>>

\* ClearQueue on the device, as Play and Stop call it
CarryClear ==
    /\ plays < MaxPlays
    /\ plays' = plays + 1
    /\ MetroClearQueue
    /\ genLog' = [op |-> "ClearQueue", n |-> plays + 1]
    /\ UNCHANGED <<playing, Tick, sent, lastOp, switch, trackType, muted,
                   lastCall, edits, launches, drumVars, pianoVars>>

\* QueuePattern(p, S.Tick) on the device
CarryQueue(p) ==
    /\ launches < MaxLaunches
    /\ launches' = launches + 1
    /\ MetroQueuePattern(p, Tick)
    /\ genLog' = [op |-> "QueuePattern", p |-> p, n |-> launches + 1]
    /\ UNCHANGED <<playing, Tick, sent, lastOp, switch, trackType, muted,
                   lastCall, edits, plays, drumVars, pianoVars>>

InitCarry ==
    /\ SysInit
    /\ DrumInit
    /\ PianoInit
    /\ MetroInit
    /\ trackType = [u \in TrackIds |->
                        IF u = MetroTrack THEN "metropolix" ELSE "none"]
    /\ drumPatterns = DefaultDrumPatterns
    /\ pianoPatterns = DefaultPianoPatterns
    /\ \E shape \in AccumShapes :
          metroPatterns = [DefaultMetroPatterns EXCEPT ![0] = shape]
    /\ genLog = NoOp

NextCarry ==
    \/ CarryFill
    \/ CarryClear
    \/ \E p \in PatternIds : CarryQueue(p)

SpecCarry == InitCarry /\ [][NextCarry]_vars

\* the accumulator state of every stage
AccumOf(run) ==
    [Accum |-> run.Accum, AccumCount |-> run.AccumCount,
     AccumDir |-> run.AccumDir]

CarryStep(op) == genLog' # genLog /\ genLog'.op = op

\* the accumulator state one cycle of pattern p leaves when it starts from
\* the state acc
AfterCycle(p, acc, startTick) ==
    AccumOf(MetroGeneratePattern(metroPatterns, p,
                [metroRun EXCEPT !.Accum = acc.Accum,
                                 !.AccumCount = acc.AccumCount,
                                 !.AccumDir = acc.AccumDir],
                startTick, [i \in 1..MaxDraws |-> 0], 0).run)

\* a pattern switch starts its first cycle from the fresh state
CarrySwitchResets ==
    (CarryStep("FillUntil") /\ genLog'.switched)
        => AccumOf(metroRun') = AfterCycle(metroNext, FreshAccum, genLog'.at)

\* without a switch a cycle starts from the state the one before left, and
\* QueuePattern itself leaves the state alone
CarryOver ==
    /\ (CarryStep("FillUntil") /\ ~genLog'.switched)
          => AccumOf(metroRun')
                = AfterCycle(metroPattern, AccumOf(metroRun), genLog'.at)
    /\ CarryStep("QueuePattern") => AccumOf(metroRun') = AccumOf(metroRun)

\* C24: the accumulator state of every stage is (0, 0, +1) after ClearQueue
\* and at the start of the first cycle after a pattern switch; nothing else
\* resets it: a cycle without a switch starts from the state the cycle
\* before left.
C24_AccumResetOnlyOnClearOrSwitch ==
    [][/\ CarryStep("ClearQueue") => AccumOf(metroRun') = FreshAccum
       /\ CarrySwitchResets
       /\ CarryOver]_vars

\* the same without the ClearQueue part
C24_AccumCarriesAndSwitchResets ==
    [][CarrySwitchResets /\ CarryOver]_vars


\* a switch came after a cycle had moved the accumulators
CarrySwitchSeen ==
    /\ genLog.op = "FillUntil"
    /\ genLog.switched
    /\ metroPattern = 1
    /\ AccumOf(metroRun) = FreshAccum


(***************************************************************************)
(* Gates: FillUntil, one faux cycle per call, on a pattern whose first     *)
(* stage takes every gate length, with ratchets that divide the stage and  *)
(* ratchets that do not                                                    *)
(***************************************************************************)
GateRatchets == {1, 2, 7}
GatePulses == {1, 2}
GateProbabilities == {50, 100}

GateShapes ==
    {[DefaultMetroPattern EXCEPT !.Length = len,
                                 !.Stages[0].Ratchets = ratchets,
                                 !.Stages[0].PulseCount = pulses,
                                 !.Stages[0].GateLength = gl,
                                 !.Stages[0].Probability = pr] :
        len \in {1, MaxStage + 1}, ratchets \in GateRatchets,
        pulses \in GatePulses, gl \in 0..(Len(gateLengths) - 1),
        pr \in GateProbabilities}

InitGate ==
    /\ SysInit
    /\ DrumInit
    /\ PianoInit
    /\ MetroInit
    /\ trackType = [u \in TrackIds |->
                        IF u = MetroTrack THEN "metropolix" ELSE "none"]
    /\ drumPatterns = DefaultDrumPatterns
    /\ pianoPatterns = DefaultPianoPatterns
    /\ \E shape \in GateShapes :
          metroPatterns = [DefaultMetroPatterns EXCEPT ![0] = shape]
    /\ genLog = [op |-> "fresh", n |-> 0, events |-> <<>>, visits |-> <<>>,
                 base |-> 0]

SpecGate == InitGate /\ [][NextSlide]_vars

\* event j of the last cycle is a NoteOn of occurrence i whose NoteOff,
\* the event generated right after it, lies within the ratchet's span
GateWithinRatchet(i, j) ==
    LET stage == OccStage(i)
        start == OccEndTick(i - 1)
        stageTicks == stage.PulseCount * (PPQ \div 4)
        ri == stageTicks \div stage.Ratchets
        interval == IF ri < 1 THEN 1 ELSE ri
        on == genLog.events[j]
        r == (on.Tick - start) \div interval
        limit == IF r = stage.Ratchets - 1 THEN start + stageTicks
                 ELSE on.Tick + interval
    IN  /\ j + 1 \in OccNotes(i, NoteOff)
        /\ genLog.events[j + 1].Note = on.Note
        /\ r \in 0..(stage.Ratchets - 1)
        /\ on.Tick = start + r * interval
        /\ genLog.events[j + 1].Tick >= on.Tick
        /\ genLog.events[j + 1].Tick <= limit
        /\ stage.GateLength = 0 => genLog.events[j + 1].Tick = on.Tick

\* C25: for every NoteOn generated at ratchet r of a stage, the matching
\* NoteOff tick is at least the NoteOn tick and at most the tick of the
\* next ratchet of the stage, or the stage end tick for the last ratchet;
\* with gate length index 0 the NoteOff has the tick of the NoteOn.
C25_GateClamped ==
    \A i \in Occurrences :
        \A j \in OccNotes(i, NoteOn) : GateWithinRatchet(i, j)

\* a stage of seven ratchets in 240 ticks played them all with a gate
\* longer than the ratchet: the first NoteOff falls on the second ratchet,
\* the last on the stage end
C25_Witness ==
    \E i \in Occurrences :
        /\ OccStage(i).Ratchets = 7
        /\ OccStage(i).PulseCount = 1
        /\ OccStage(i).GateLength = 1
        /\ Cardinality(OccNotes(i, NoteOn)) = 7
        /\ \E j \in OccNotes(i, NoteOn) :
              /\ genLog.events[j].Tick = OccEndTick(i - 1) + 6 * 34
              /\ genLog.events[j + 1].Tick = OccEndTick(i)
        /\ \E j \in OccNotes(i, NoteOn) :
              /\ genLog.events[j].Tick = OccEndTick(i - 1)
              /\ genLog.events[j + 1].Tick = OccEndTick(i - 1) + 34


(***************************************************************************)
(* Pitches: FillUntil, one faux cycle per call, on a pattern of any scale  *)
(* whose first stage lies at either end of the note range and accumulates  *)
(***************************************************************************)
PitchRoots == {0, 60, 127}
PitchNotes == {0, 7}
PitchOctaves == {0, 4, 7}
PitchAccumulators == {0 - 4, 3}

PitchShapes ==
    {[DefaultMetroPattern EXCEPT !.Scale = sc,
                                 !.RootNote = root,
                                 !.Stages[0].Note = note,
                                 !.Stages[0].Octave = oct,
                                 !.Stages[0].Accumulator = a] :
        sc \in 0..(Len(scales) - 1), root \in PitchRoots,
        note \in PitchNotes, oct \in PitchOctaves, a \in PitchAccumulators}

InitPitch ==
    /\ SysInit
    /\ DrumInit
    /\ PianoInit
    /\ MetroInit
    /\ trackType = [u \in TrackIds |->
                        IF u = MetroTrack THEN "metropolix" ELSE "none"]
    /\ drumPatterns = DefaultDrumPatterns
    /\ pianoPatterns = DefaultPianoPatterns
    /\ \E shape \in PitchShapes :
          metroPatterns = [DefaultMetroPatterns EXCEPT ![0] = shape]
    /\ genLog = [op |-> "fresh", n |-> 0, events |-> <<>>, visits |-> <<>>,
                 base |-> 0]

SpecPitch == InitPitch /\ [][NextSlide]_vars

\* the pitch of stage s before the clamp, for the accumulator offset acc
PitchSum(s, acc) ==
    LET pat == metroPatterns[metroPattern]
        scale == scales[pat.Scale + 1]
        note == pat.Stages[s].Note
    IN  pat.RootNote + scale[(note % Len(scale)) + 1]
        + 12 * (note \div Len(scale)) + 12 * (pat.Stages[s].Octave - 4) + acc

ClampNote(x) == IF x < 0 THEN 0 ELSE IF x > 127 THEN 127 ELSE x

\* C26: every NoteOn and NoteOff of a generated cycle carries the pitch
\* root + scale[note mod |scale|] + 12*(note div |scale|) + 12*(octave - 4)
\* + the accumulator offset the stage had when it fired, clamped to 0..127;
\* in forward mode each stage fires once a cycle, on the offset it had when
\* the cycle began.
C26_PitchFormulaClamped ==
    [][genLog'.n = genLog.n + 1 =>
          \A j \in 1..Len(genLog'.events) :
              LET e == genLog'.events[j]
              IN  e.Type \in {NoteOn, NoteOff} =>
                     /\ e.Note = ClampNote(PitchSum(e.src.stage,
                                               metroRun.Accum[e.src.stage]))
                     /\ e.Note \in 0..127
      ]_vars

\* the second cycle of a pattern whose first stage, already moved by its
\* accumulator, comes out below 0 or above 127 and is played at the limit
C26_Witness ==
    /\ genLog.n = MaxGen
    /\ metroRun.Accum[0] # 0
    /\ \E j \in 1..Len(genLog.events) :
          /\ genLog.events[j].Type = NoteOn
          /\ genLog.events[j].src.stage = 0
          /\ \/ /\ genLog.events[j].Note = 127
                /\ PitchSum(0, 3) > 127
                /\ metroPatterns[metroPattern].Stages[0].Accumulator = 3
             \/ /\ genLog.events[j].Note = 0
                /\ PitchSum(0, 0 - 4) < 0
                /\ metroPatterns[metroPattern].Stages[0].Accumulator = 0 - 4


(***************************************************************************)
(* Pendulum: FillUntil, one faux cycle per call, on a pendulum pattern of  *)
(* up to three stages                                                      *)
(***************************************************************************)
PendulumStages == 0..(MaxStage + 1)

PendulumShapes ==
    {[Stages |-> [s \in PendulumStages |->
                     [DefaultStage(s) EXCEPT
                          !.Slide = s \in sl,
                          !.PulseCount = IF s = 0 THEN pulses ELSE 1]],
      Length |-> len, Mode |-> ModePendulum, Scale |-> 1, RootNote |-> 60,
      SlideTime |-> 3] :
        len \in 1..(MaxStage + 2), sl \in SUBSET PendulumStages,
        pulses \in GatePulses}

InitPendulum ==
    /\ SysInit
    /\ DrumInit
    /\ PianoInit
    /\ metroPattern = 0
    /\ metroNext = -1
    /\ metroEditing = 0
    /\ metroSelected = 0
    /\ metroRun = [Stage |-> 0, Direction |-> 1,
                   Accum |-> [i \in PendulumStages |-> 0],
                   AccumCount |-> [i \in PendulumStages |-> 0],
                   AccumDir |-> [i \in PendulumStages |-> 1]]
    /\ metroQueue = <<>>
    /\ metroQueuedUntilTick = 0
    /\ metroPatternStartTick = 0
    /\ metroNextPatternTick = -1
    /\ trackType = [u \in TrackIds |->
                        IF u = MetroTrack THEN "metropolix" ELSE "none"]
    /\ drumPatterns = DefaultDrumPatterns
    /\ pianoPatterns = DefaultPianoPatterns
    /\ \E shape \in PendulumShapes :
          metroPatterns = [DefaultMetroPatterns EXCEPT ![0] = shape]
    /\ genLog = [op |-> "fresh", n |-> 0, events |-> <<>>, visits |-> <<>>,
                 base |-> 0]

SpecPendulum == InitPendulum /\ [][NextSlide]_vars

\* the stage a pendulum over n stages plays on its i-th occurrence (from 0)
PendulumAt(n, i) ==
    IF n = 1 THEN 0
    ELSE LET m == i % (2 * (n - 1))
         IN  IF m < n THEN m ELSE 2 * (n - 1) - m

\* nextStage negates the direction exactly when the step would leave the
\* range, and always lands within it
PendulumStepInRange ==
    LET pat == metroPatterns[metroPattern]
    IN  \A s \in 0..(pat.Length - 1), dir \in {-1, 1} :
           LET ns == nextStage(pat, s, dir, 0)
               leaves == s + dir < 0 \/ s + dir >= pat.Length
           IN  /\ ns.next \in 0..(pat.Length - 1)
               /\ ns.dir = IF leaves THEN 0 - dir ELSE dir
               /\ ~leaves => ns.next = s + dir

\* the stages played stay within the pattern's length
PendulumVisitsInRange ==
    \A i \in Occurrences :
        genLog.visits[i] \in 0..(metroPatterns[metroPattern].Length - 1)

\* C27: in pendulum mode with n stages the stages played on successive
\* occurrences go 0, 1, ..., n-1, n-2, ..., 1, 0, 1, ... and go on so from
\* one faux cycle to the next; the direction is negated exactly when a step
\* would leave the range, and the stage played is always within it.
C27_PendulumOrder ==
    LET n == metroPatterns[metroPattern].Length
    IN  /\ PendulumStepInRange
        /\ PendulumVisitsInRange
        /\ \A i \in Occurrences :
              genLog.visits[i] = PendulumAt(n, (genLog.n - 1) * n + (i - 1))

\* the same without the order from one cycle to the next: within a cycle
\* the stages come in pendulum order from stage 0
C27_PendulumWithinCycle ==
    LET n == metroPatterns[metroPattern].Length
    IN  /\ PendulumStepInRange
        /\ PendulumVisitsInRange
        /\ \A i \in Occurrences : genLog.visits[i] = PendulumAt(n, i - 1)


\* the queue manager's FillUntil has just run on the drum device
DrumFillCalled ==
    /\ Present(DrumTrack)
    /\ genLog'.op = "FillUntil"
    /\ genLog' # genLog

\* the schedule new is the schedule old without its first k slots
TrimmedBy(pats, old, new, k) ==
    /\ new.StartTick = SlotStartTick(pats, old, k + 1)
    /\ Len(new.Patterns) >= Len(old.Patterns) - k
    /\ \A j \in 1..(Len(old.Patterns) - k) :
          new.Patterns[j] = old.Patterns[k + j]

\* C28: after drum FillUntil(T) at global tick c the schedule is not empty,
\* starts at or before c and ends at or after T; the slots trimmed lay
\* wholly before c and StartTick moved on by exactly their length.
C28_ScheduleCovers ==
    [][DrumFillCalled =>
          /\ schedule'.Patterns # <<>>
          /\ schedule'.StartTick <= genLog'.tick
          /\ scheduleEndTick(drumPatterns, schedule') >= genLog'.target
          /\ \E k \in 0..(Len(schedule.Patterns) - 1) :
                /\ TrimmedBy(drumPatterns, schedule, schedule', k)
                /\ SlotStartTick(drumPatterns, schedule, k + 1)
                      <= genLog'.tick
      ]_vars

\* a fill at a later tick that trimmed a slot off a schedule holding a
\* queued pattern and extended it to the target
C28_Witness ==
    /\ Present(DrumTrack)
    /\ genLog.op = "FillUntil"
    /\ genLog.tick >= 2 * TicksPerStep
    /\ schedule.StartTick > 0
    /\ schedule.StartTick <= genLog.tick
    /\ launches > 0
    /\ schedule.Patterns[Len(schedule.Patterns)] = 1
    /\ scheduleEndTick(drumPatterns, schedule) >= genLog.target


\* C29: only the queue manager's FillUntil appends to or rebuilds a device
\* queue and writes the drum schedule; a QueuePattern call, which comes
\* from the UI or the MIDI input through SessionDevice.queuePattern, leaves
\* the queues and the schedule as they are.
C29_OnlyManagerWritesQueues ==
    [][(genLog'.op = "QueuePattern" /\ genLog' # genLog)
          => UNCHANGED <<drumQueue, schedule, pianoQueue, metroQueue>>]_vars


(***************************************************************************)
(* Regeneration of the playing pattern after an edit                       *)
(***************************************************************************)
\* the regeneration loop of PianoRollDevice.regeneratePatternInQueue
RECURSIVE PianoRegenLoop(_, _, _, _)
PianoRegenLoop(pats, patternNum, st, oldQueuedUntil) ==
    IF st.queuedUntil < oldQueuedUntil
    THEN PianoRegenLoop(pats, patternNum,
             [queuedUntil |-> st.queuedUntil
                              + pianoPatternLengthTicks(pats, patternNum),
              newQueue |-> st.newQueue
                           \o PianoGeneratePattern(pats, patternNum,
                                                   st.queuedUntil)],
             oldQueuedUntil)
    ELSE st

\* a regeneration that keeps the whole old queue and adds the new cycles
PianoRegenerateKeepsAll(pats, patternNum) ==
    LET st == PianoRegenLoop(pats, pianoPattern,
                  [queuedUntil |-> pianoPatternStartTick,
                   newQueue |-> pianoQueue],
                  pianoQueuedUntilTick)
    IN  /\ pianoPatterns' = pats
        /\ pianoQueue' = st.newQueue
        /\ pianoQueuedUntilTick' = st.queuedUntil
        /\ UNCHANGED <<pianoPattern, pianoNext, pianoEditing,
                       pianoPatternStartTick, pianoNextPatternTick>>

\* PianoRollDevice.regeneratePatternInQueue, run on the pattern data pats
PianoRegenerate(pats, patternNum) ==
    IF patternNum # pianoPattern
    THEN /\ pianoPatterns' = pats
         /\ UNCHANGED <<pianoPattern, pianoNext, pianoEditing, pianoQueue,
                        pianoQueuedUntilTick, pianoPatternStartTick,
                        pianoNextPatternTick>>
    ELSE LET st == PianoRegenLoop(pats, pianoPattern,
                       [queuedUntil |-> pianoPatternStartTick,
                        newQueue |-> SelectTickBelow(pianoQueue,
                                         pianoPatternStartTick)],
                       pianoQueuedUntilTick)
         IN  /\ pianoPatterns' = pats
             /\ pianoQueue' = st.newQueue
             /\ pianoQueuedUntilTick' = st.queuedUntil
             /\ UNCHANGED <<pianoPattern, pianoNext, pianoEditing,
                            pianoPatternStartTick, pianoNextPatternTick>>

\* the pattern data after an edit of the editing pattern: a beat longer,
\* or its first note a semitone up
PianoEdited ==
    {[pianoPatterns EXCEPT ![pianoEditing].Length = @ + BeatDenom]}
    \cup (IF pianoPatterns[pianoEditing].Notes = <<>> THEN {}
          ELSE {[pianoPatterns EXCEPT ![pianoEditing].Notes[1].Pitch = @ + 1]})

\* an edit followed by regeneratePatternInQueue(Editing); genLog keeps the
\* pattern start and the filled-until tick the call found
RegenCall ==
    /\ edits < MaxEdits
    /\ edits' = edits + 1
    /\ \/ /\ Present(PianoTrack)
          /\ \E pats \in PianoEdited : PianoRegenerate(pats, pianoEditing)
          /\ genLog' = [op |-> "regenerate", track |-> PianoTrack,
                        start |-> pianoPatternStartTick,
                        until |-> pianoQueuedUntilTick,
                        playing |-> pianoEditing = pianoPattern]
          /\ UNCHANGED <<drumVars, metroVars>>
       \/ /\ Present(MetroTrack)
          /\ \E dr \in OraclesFor(metroPatterns) : MetroRootUp(dr)
          /\ genLog' = [op |-> "regenerate", track |-> MetroTrack,
                        start |-> metroPatternStartTick,
                        until |-> metroQueuedUntilTick,
                        playing |-> metroEditing = metroPattern]
          /\ UNCHANGED <<drumVars, pianoVars>>
    /\ UNCHANGED <<playing, Tick, sent, lastOp, switch, trackType, muted,
                   lastCall, plays, launches>>

InitRegen == InitClip /\ ~Present(DrumTrack)

NextRegen ==
    \/ SwitchClock
    \/ SwitchFill
    \/ \E t \in TrackIds, p \in PatternIds, d \in OffGrid : SwitchQueue(t, p, d)
    \/ RegenCall

SpecRegen == InitRegen /\ [][NextRegen]_vars

\* k whole cycles of the piano pattern p from the tick from on
RECURSIVE PianoCycles(_, _, _, _)
PianoCycles(pats, p, from, k) ==
    IF k = 0 THEN <<>>
    ELSE PianoGeneratePattern(pats, p, from)
         \o PianoCycles(pats, p, from + pianoPatternLengthTicks(pats, p),
                        k - 1)

\* k whole cycles of the metropolix pattern p from the tick from on, each
\* from stage 0 with the accumulators at rest
RECURSIVE MetroCycles(_, _, _, _)
MetroCycles(pats, p, from, k) ==
    IF k = 0 THEN <<>>
    ELSE MetroGeneratePattern(pats, p, FreshRun, from,
                              [i \in 1..MaxDraws |-> 0], 0).events
         \o MetroCycles(pats, p, from + fauxPatternTicks(pats, p), k - 1)

\* the number of whole cycles of length len from start that reach until
CyclesToReach(start, len, until) ==
    IF until <= start THEN 0 ELSE CeilDiv(until - start, len)

RegenCalled(t) ==
    /\ genLog'.op = "regenerate"
    /\ genLog' # genLog
    /\ genLog'.track = t
    /\ genLog'.playing

\* C30: regeneration of the playing pattern keeps exactly the queued events
\* with tick below the pattern start and replaces everything from the
\* pattern start on by whole cycles generated from the current pattern
\* data, up to at least the filled-until tick the call found.
C30_RegenerateFromPatternStart ==
    [][/\ RegenCalled(PianoTrack) =>
             LET len == pianoPatternLengthTicks(pianoPatterns', pianoPattern)
                 k == CyclesToReach(genLog'.start, len, genLog'.until)
             IN  /\ pianoQueue'
                       = SelectTickBelow(pianoQueue, genLog'.start)
                         \o PianoCycles(pianoPatterns', pianoPattern,
                                        genLog'.start, k)
                 /\ pianoQueuedUntilTick' = genLog'.start + k * len
                 /\ pianoQueuedUntilTick' >= genLog'.until
       /\ RegenCalled(MetroTrack) =>
             LET len == fauxPatternTicks(metroPatterns', metroPattern)
                 k == CyclesToReach(genLog'.start, len, genLog'.until)
             IN  /\ metroQueue'
                       = SelectTickBelow(metroQueue, genLog'.start)
                         \o MetroCycles(metroPatterns', metroPattern,
                                        genLog'.start, k)
                 /\ metroQueuedUntilTick' = genLog'.start + k * len
                 /\ metroQueuedUntilTick' >= genLog'.until
      ]_vars

\* a regeneration after a switch: events from before the pattern start
\* were kept and the cycles after it carry the edited data
C30_Witness ==
    /\ genLog.op = "regenerate"
    /\ genLog.playing
    /\ genLog.start > 0
    /\ genLog.until > genLog.start
    /\ \/ /\ genLog.track = PianoTrack
          /\ \E i \in 1..Len(pianoQueue) : pianoQueue[i].Tick < genLog.start
          /\ \E i \in 1..Len(pianoQueue) :
                /\ pianoQueue[i].Tick >= genLog.start
                /\ pianoQueue[i].Note = 61
       \/ /\ genLog.track = MetroTrack
          /\ \E i \in 1..Len(metroQueue) : metroQueue[i].Tick < genLog.start
          /\ \E i \in 1..Len(metroQueue) :
                /\ metroQueue[i].Tick >= genLog.start
                /\ metroQueue[i].Note = 61


(***************************************************************************)
(* Piano roll note edits: keys, pads and MIDI recording on one pattern     *)
(***************************************************************************)
\* sort.Slice by Start at the end of HandleKey (any order of equal starts
\* is a sorted one; the model keeps theirs)
RECURSIVE SortByStart(_)
SortByStart(notes) ==
    IF notes = <<>> THEN <<>>
    ELSE InsertByStart(notes[Len(notes)],
                       SortByStart(SubSeq(notes, 1, Len(notes) - 1)))

\* the minimum duration of a new note: a quarter of a beat
MinDuration == BeatDenom \div 4

\* the views the pads show: CenterBeat 2.0 with an eighth or a quarter of a
\* beat per column
PadViewScales == {BeatDenom \div 8, BeatDenom \div 4}
PadCenterBeat == 2 * BeatDenom
PadPitches == {60, 61}

EditedNotes == pianoPatterns[pianoEditing].Notes

\* one more edit; genLog keeps the handler and the key
NoteEditFrame(handler, key) ==
    /\ edits < MaxKeys
    /\ edits' = edits + 1
    /\ genLog' = [op |-> handler, key |-> key, n |-> edits + 1]
    /\ UNCHANGED <<playing, Tick, sent, lastOp, switch, trackType, muted,
                   lastCall, plays, launches, drumVars, metroVars,
                   pianoPattern, pianoNext, pianoEditing, pianoQueue,
                   pianoQueuedUntilTick, pianoPatternStartTick,
                   pianoNextPatternTick>>

\* HandleKey leaves the note list notes, sorted by its trailing sort.Slice
KeyLeaves(notes, key) ==
    /\ pianoPatterns' = [pianoPatterns EXCEPT ![pianoEditing].Notes =
                             SortByStart(notes)]
    /\ NoteEditFrame("HandleKey", key)

\* HandleKey "y" / "o": the selected note earlier / later by editH
KeyMove ==
    \E i \in 1..Len(EditedNotes), editH \in PianoEditHoriz :
        LET n == EditedNotes[i]
            len == pianoPatterns[pianoEditing].Length
        IN  \/ KeyLeaves([EditedNotes EXCEPT ![i].Start =
                              IF n.Start >= editH THEN n.Start - editH
                              ELSE 0], "y")
            \/ KeyLeaves([EditedNotes EXCEPT ![i].Start =
                              IF n.Start + n.Duration + editH <= len
                              THEN n.Start + editH ELSE n.Start], "o")

\* HandleKey "n" / "m": the selected note shorter / longer by editH
KeyResize ==
    \E i \in 1..Len(EditedNotes), editH \in PianoEditHoriz :
        LET n == EditedNotes[i]
            len == pianoPatterns[pianoEditing].Length
        IN  \/ KeyLeaves([EditedNotes EXCEPT ![i].Duration =
                              IF n.Duration > editH THEN n.Duration - editH
                              ELSE n.Duration], "n")
            \/ KeyLeaves([EditedNotes EXCEPT ![i].Duration =
                              IF n.Start + n.Duration + editH <= len
                              THEN n.Duration + editH ELSE n.Duration], "m")

\* HandleKey " ": a new note at the view centre
KeyAdd ==
    /\ Len(EditedNotes) < MaxNotes
    /\ \E c \in PianoNoteStarts \cup {PadCenterBeat},
          editH \in PianoEditHoriz :
          LET d == editH * 4
          IN  KeyLeaves(Append(EditedNotes,
                  [Start |-> c,
                   Duration |-> IF d < MinDuration THEN MinDuration ELSE d,
                   Pitch |-> 60, Velocity |-> 100]), " ")

\* HandleKey "x": the selected note deleted
KeyDelete ==
    \E i \in 1..Len(EditedNotes) :
        KeyLeaves(SubSeq(EditedNotes, 1, i - 1)
                  \o SubSeq(EditedNotes, i + 1, Len(EditedNotes)), "x")

\* HandlePad: a pad over a note of its pitch selects it; a free pad adds a
\* note of one column at the end of the list
PadPress ==
    \E viewScale \in PadViewScales, col \in 0..7, pitch \in PadPitches :
        LET beat == PadCenterBeat - 4 * viewScale + col * viewScale
            beatEnd == beat + viewScale
            taken == \E i \in 1..Len(EditedNotes) :
                        /\ EditedNotes[i].Pitch = pitch
                        /\ EditedNotes[i].Start < beatEnd
                        /\ EditedNotes[i].Start + EditedNotes[i].Duration
                              > beat
        IN  /\ beat >= 0
            /\ beat < pianoPatterns[pianoEditing].Length
            /\ ~taken
            /\ Len(EditedNotes) < MaxNotes
            /\ pianoPatterns' = [pianoPatterns EXCEPT ![pianoEditing].Notes =
                   Append(@, [Start |-> beat,
                              Duration |-> IF viewScale < MinDuration
                                           THEN MinDuration ELSE viewScale,
                              Pitch |-> pitch, Velocity |-> 100])]
            /\ NoteEditFrame("HandlePad", col)

\* HandleMIDI: a NoteOn at the quantized beat from and its NoteOff at the
\* quantized beat to (before it when the pattern wrapped in between) add
\* the recorded note at the end of the list
RecordNote ==
    \E from \in 0..((pianoPatterns[pianoEditing].Length \div MinDuration) - 1),
       to \in 0..((pianoPatterns[pianoEditing].Length \div MinDuration) - 1) :
        LET start == from * MinDuration
            duration == to * MinDuration - start
        IN  /\ Len(EditedNotes) < MaxNotes
            /\ pianoPatterns' = [pianoPatterns EXCEPT ![pianoEditing].Notes =
                   Append(@, [Start |-> start,
                              Duration |-> IF duration < MinDuration
                                           THEN MinDuration ELSE duration,
                              Pitch |-> 60, Velocity |-> 100])]
            /\ NoteEditFrame("HandleMIDI", from)

\* NewPianoState with a pattern of two beats
InitNotes ==
    /\ SysInit
    /\ DrumInit
    /\ PianoInit
    /\ MetroInit
    /\ trackType = [u \in TrackIds |->
                        IF u = PianoTrack THEN "piano" ELSE "none"]
    /\ drumPatterns = DefaultDrumPatterns
    /\ metroPatterns = DefaultMetroPatterns
    /\ pianoPatterns = [DefaultPianoPatterns EXCEPT
                            ![0].Length = 2 * BeatDenom]
    /\ genLog = NoOp

NextNotes ==
    \/ KeyMove
    \/ KeyResize
    \/ KeyAdd
    \/ KeyDelete
    \/ PadPress
    \/ RecordNote

SpecNotes == InitNotes /\ [][NextNotes]_vars

SortedByStart(notes) ==
    \A i \in 1..(Len(notes) - 1) : notes[i].Start <= notes[i + 1].Start

\* C31: after any sequence of piano edits (keys, pads, MIDI recording)
\* every pattern's note list is sorted by start and every note in it lasts
\* at least a quarter of a beat.
C31_NotesSortedAndLongEnough ==
    \A p \in PatternIds :
        /\ SortedByStart(pianoPatterns[p].Notes)
        /\ \A i \in 1..Len(pianoPatterns[p].Notes) :
              pianoPatterns[p].Notes[i].Duration >= MinDuration

\* the part that holds: the list HandleKey leaves is sorted by start
C31_SortedAfterKey ==
    genLog.op = "HandleKey"
        => \A p \in PatternIds : SortedByStart(pianoPatterns[p].Notes)

\* a pad or a recorded note left the list out of order
C31_UnsortedSeen ==
    /\ genLog.op \in {"HandlePad", "HandleMIDI"}
    /\ ~SortedByStart(EditedNotes)

\* the shorten key left a note below the minimum
C31_ShortSeen ==
    /\ genLog.op = "HandleKey"
    /\ genLog.key = "n"
    /\ \E i \in 1..Len(EditedNotes) : EditedNotes[i].Duration < MinDuration


(***************************************************************************)
(* Manager.getSender: concurrent callers for one port name.  genLog holds  *)
(* the senders map entry of the port, the holder of the write lock, the    *)
(* number of times the port was opened, and each caller's position and     *)
(* return value (0: nil, k: the sender the k-th open returned)             *)
(***************************************************************************)
Callers == 1..MaxCallers

\* all devices as constructed; nothing but getSender runs
InitSenders ==
    /\ SysInit
    /\ DrumInit
    /\ PianoInit
    /\ MetroInit
    /\ trackType = [u \in TrackIds |-> "none"]
    /\ drumPatterns = DefaultDrumPatterns
    /\ pianoPatterns = DefaultPianoPatterns
    /\ metroPatterns = DefaultMetroPatterns
    /\ genLog = [op |-> "getSender", senders |-> 0, writer |-> 0,
                 opens |-> 0, attempts |-> 0,
                 pc |-> [c \in Callers |-> "idle"],
                 ret |-> [c \in Callers |-> 0]]

SendersFrame == UNCHANGED <<sysVars, drumVars, pianoVars, metroVars>>

\* the double check that skips the lookup
CachedUnderLockSkipped(g) == FALSE

\* the lookup in the senders map under the write lock
CachedUnderLock(g) == g.senders # 0

\* a goroutine calls getSender(portName)
SenderCall(c) ==
    /\ genLog.pc[c] = "idle"
    /\ genLog' = [genLog EXCEPT !.pc[c] = "rlock"]
    /\ SendersFrame

\* RLock, lookup, RUnlock: a hit returns the cached sender
SenderReadLookup(c) ==
    /\ genLog.pc[c] = "rlock"
    /\ genLog.writer = 0
    /\ genLog' = IF genLog.senders # 0
                 THEN [genLog EXCEPT !.pc[c] = "done", !.ret[c] = genLog.senders]
                 ELSE [genLog EXCEPT !.pc[c] = "lock"]
    /\ SendersFrame

\* Lock
SenderLock(c) ==
    /\ genLog.pc[c] = "lock"
    /\ genLog.writer = 0
    /\ genLog' = [genLog EXCEPT !.pc[c] = "check", !.writer = c]
    /\ SendersFrame

\* the double check after acquiring the write lock; a hit returns the
\* cached sender and the deferred Unlock runs
SenderDoubleCheck(c) ==
    /\ genLog.pc[c] = "check"
    /\ genLog' = IF CachedUnderLock(genLog)
                 THEN [genLog EXCEPT !.pc[c] = "done", !.writer = 0,
                                     !.ret[c] = genLog.senders]
                 ELSE [genLog EXCEPT !.pc[c] = "open"]
    /\ SendersFrame

\* find and open the port: SendTo returns a new sender, which is stored and
\* returned, or the port is absent or SendTo fails and nil is returned; the
\* deferred Unlock runs
SenderOpen(c, ok) ==
    /\ genLog.pc[c] = "open"
    /\ genLog' = IF ok
                 THEN [genLog EXCEPT !.pc[c] = "done", !.writer = 0,
                                     !.opens = @ + 1,
                                     !.attempts = @ + 1,
                                     !.senders = genLog.opens + 1,
                                     !.ret[c] = genLog.opens + 1]
                 ELSE [genLog EXCEPT !.pc[c] = "done", !.writer = 0,
                                     !.attempts = @ + 1]
    /\ SendersFrame

NextSenders ==
    \E c \in Callers :
        \/ SenderCall(c)
        \/ SenderReadLookup(c)
        \/ SenderLock(c)
        \/ SenderDoubleCheck(c)
        \/ \E ok \in BOOLEAN : SenderOpen(c, ok)

SpecSenders == InitSenders /\ [][NextSenders]_vars

\* C32: under concurrent getSender calls for one port name the port is
\* opened at most once, and every caller that gets a sender gets the one
\* in the map; a caller gets nil only when the port could not be opened.
C32_OpenedOnce ==
    /\ genLog.opens <= 1
    /\ \A c \in Callers :
          genLog.pc[c] = "done" =>
              /\ genLog.ret[c] # 0 => genLog.ret[c] = genLog.senders
              /\ genLog.ret[c] = 0 => genLog.attempts > genLog.opens

\* every caller has returned the sender that the one open produced
C32_Witness ==
    /\ genLog.opens = 1
    /\ genLog.attempts = 1
    /\ \A c \in Callers : genLog.pc[c] = "done" /\ genLog.ret[c] = 1


(***************************************************************************)
(* QueuePattern on the UI goroutine against FillUntil on the queue         *)
(* manager goroutine (piano roll and metropolix)                           *)
(*                                                                         *)
(* Neither call is atomic.  FillUntil copies the queue fields under the    *)
(* read lock, generates with the lock released (writing state.Pattern and  *)
(* state.Next on the way), and stores its locals under the write lock.     *)
(* QueuePattern writes state.Next, copies the queue fields under the read  *)
(* lock, and stores the boundary under the write lock.  genLog holds the   *)
(* position and the locals of the two calls.                               *)
(***************************************************************************)
RaceIdle == [pc |-> "idle"]

RaceOracle == [i \in 1..MaxDraws |-> 0]

\* a one-beat piano pattern whose only note ends inside the pattern
RacePianoPatterns ==
    [p \in PatternIds |-> [Notes |-> <<PianoNote(0, BeatDenom \div 4)>>,
                           Length |-> BeatDenom]]

\* metropolix patterns of MaxStage + 1 stages whose NoteOff falls on the
\* tick of the NoteOn (gate length index 0)
RaceMetroPatterns ==
    [p \in PatternIds |->
        [DefaultMetroPattern EXCEPT
            !.Stages = [s \in StageIds |->
                           [DefaultStage(s) EXCEPT !.GateLength = 0]]]]

InitRace ==
    /\ SysInit
    /\ DrumInit
    /\ PianoInit
    /\ MetroInit
    /\ drumPatterns = DefaultDrumPatterns
    /\ pianoPatterns = RacePianoPatterns
    /\ metroPatterns = RaceMetroPatterns
    /\ \E t \in {PianoTrack, MetroTrack} :
          /\ trackType = [u \in TrackIds |->
                              IF u # t THEN "none"
                              ELSE IF t = PianoTrack THEN "piano"
                              ELSE "metropolix"]
          /\ genLog = [op |-> "none", track |-> t, fill |-> RaceIdle,
                       qp |-> RaceIdle,
                       req |-> [p |-> -1, boundary |-> -1, old |-> -1],
                       panic |-> FALSE]

RaceFrame ==
    UNCHANGED <<playing, sent, lastOp, switch, trackType, muted, lastCall,
                edits, plays, drumVars>>

\* the manager's clock
RaceClock ==
    /\ Tick + TicksPerStep <= HorizonTick
    /\ ~genLog.panic
    /\ Tick' = Tick + TicksPerStep
    /\ genLog' = [genLog EXCEPT !.op = "ClockTick"]
    /\ RaceFrame
    /\ UNCHANGED <<launches, pianoVars, metroVars>>

\* FillUntil up to its early return: the three fields are copied under the
\* read lock
RaceFillRead ==
    /\ genLog.fill.pc = "idle"
    /\ ~genLog.panic
    /\ LET tick == Tick + LookAheadTicks
           piano == genLog.track = PianoTrack
           queuedUntil == IF piano THEN pianoQueuedUntilTick
                          ELSE metroQueuedUntilTick
       IN  /\ queuedUntil < tick
           /\ genLog' = [genLog EXCEPT
                  !.op = "FillRead",
                  !.fill = [pc |-> "read",
                            tick |-> tick,
                            queuedUntil |-> queuedUntil,
                            patternStart |-> IF piano
                                             THEN pianoPatternStartTick
                                             ELSE metroPatternStartTick,
                            nextPatTick |-> IF piano THEN pianoNextPatternTick
                                            ELSE metroNextPatternTick]]
    /\ RaceFrame
    /\ UNCHANGED <<Tick, launches, pianoVars, metroVars>>

\* the locals of FillUntil when its generation loop starts
RaceFillState ==
    [queuedUntil |-> genLog.fill.queuedUntil,
     patternStart |-> genLog.fill.patternStart,
     nextPatTick |-> genLog.fill.nextPatTick,
     pattern |-> metroPattern,
     next |-> metroNext,
     run |-> metroRun,
     k |-> 0,
     newEvents |-> <<>>]

\* the generation loop of MetropolixDevice.FillUntil reaches its switch
\* while state.Next is -1
RECURSIVE MetroSwitchesToNone(_, _, _)
MetroSwitchesToNone(pats, st, tick) ==
    IF st.queuedUntil < tick
    THEN IF st.nextPatTick >= 0 /\ st.queuedUntil >= st.nextPatTick
            /\ st.next = -1
         THEN TRUE
         ELSE MetroSwitchesToNone(pats,
                  MetroFillOnce(pats, st, tick, RaceOracle), tick)
    ELSE FALSE

\* the generation loop of PianoRollDevice.FillUntil, run with the lock
\* released: it reads and writes state.Pattern and reads state.Next
RacePianoGenerate ==
    /\ genLog.track = PianoTrack
    /\ genLog.fill.pc = "read"
    /\ LET st == PianoFillLoop(pianoPatterns,
                     [queuedUntil |-> genLog.fill.queuedUntil,
                      patternStart |-> genLog.fill.patternStart,
                      nextPatTick |-> genLog.fill.nextPatTick,
                      pattern |-> pianoPattern,
                      next |-> pianoNext,
                      newEvents |-> <<>>],
                     genLog.fill.tick)
       IN  /\ pianoPattern' = st.pattern
           /\ genLog' = [genLog EXCEPT
                  !.op = "FillGenerate",
                  !.fill = [pc |-> "generated",
                            tick |-> genLog.fill.tick,
                            queuedUntil |-> st.queuedUntil,
                            patternStart |-> st.patternStart,
                            nextPatTick |-> st.nextPatTick,
                            newEvents |-> st.newEvents]]
    /\ RaceFrame
    /\ UNCHANGED <<Tick, launches, pianoPatterns, pianoNext, pianoEditing,
                   pianoQueue, pianoQueuedUntilTick, pianoPatternStartTick,
                   pianoNextPatternTick, metroVars>>

\* the generation loop of MetropolixDevice.FillUntil, run with the lock
\* released: it writes state.Pattern, state.Next and the playback state.
\* A switch taken while state.Next is -1 stores -1 in state.Pattern, and
\* GeneratePattern then indexes Patterns with it.
RaceMetroGenerate ==
    /\ genLog.track = MetroTrack
    /\ genLog.fill.pc = "read"
    /\ IF MetroSwitchesToNone(metroPatterns, RaceFillState, genLog.fill.tick)
       THEN /\ metroPattern' = -1
            /\ metroNext' = -1
            /\ genLog' = [genLog EXCEPT !.op = "FillGenerate",
                                        !.fill = [pc |-> "panic"],
                                        !.panic = TRUE]
            /\ UNCHANGED metroRun
       ELSE LET st == MetroFillLoop(metroPatterns, RaceFillState,
                                    genLog.fill.tick, RaceOracle)
            IN  /\ metroPattern' = st.pattern
                /\ metroNext' = st.next
                /\ metroRun' = st.run
                /\ genLog' = [genLog EXCEPT
                       !.op = "FillGenerate",
                       !.fill = [pc |-> "generated",
                                 tick |-> genLog.fill.tick,
                                 queuedUntil |-> st.queuedUntil,
                                 patternStart |-> st.patternStart,
                                 nextPatTick |-> st.nextPatTick,
                                 newEvents |-> st.newEvents]]
    /\ RaceFrame
    /\ UNCHANGED <<Tick, launches, metroPatterns, metroEditing, metroSelected,
                   metroQueue, metroQueuedUntilTick, metroPatternStartTick,
                   metroNextPatternTick, pianoVars>>

\* the end of FillUntil: under the write lock the new events are appended
\* and the three fields are stored from the locals
RaceFillWrite ==
    /\ genLog.fill.pc = "generated"
    /\ IF genLog.track = PianoTrack
       THEN /\ pianoQueue' = pianoQueue \o genLog.fill.newEvents
            /\ pianoQueuedUntilTick' = genLog.fill.queuedUntil
            /\ pianoPatternStartTick' = genLog.fill.patternStart
            /\ pianoNextPatternTick' = genLog.fill.nextPatTick
            /\ UNCHANGED <<pianoPatterns, pianoPattern, pianoNext,
                           pianoEditing, metroVars>>
       ELSE /\ metroQueue' = metroQueue \o genLog.fill.newEvents
            /\ metroQueuedUntilTick' = genLog.fill.queuedUntil
            /\ metroPatternStartTick' = genLog.fill.patternStart
            /\ metroNextPatternTick' = genLog.fill.nextPatTick
            /\ UNCHANGED <<metroPatterns, metroPattern, metroNext,
                           metroEditing, metroSelected, metroRun, pianoVars>>
    /\ genLog' = [genLog EXCEPT !.op = "FillWrite", !.fill = RaceIdle]
    /\ RaceFrame
    /\ UNCHANGED <<Tick, launches>>

\* QueuePattern(p, S.Tick) up to its write lock: state.Next is written,
\* the boundary is computed from the fields copied under the read lock
RaceQueueRead(p) ==
    /\ genLog.qp.pc = "idle"
    /\ ~genLog.panic
    /\ launches < MaxSwitches
    /\ launches' = launches + 1
    /\ LET piano == genLog.track = PianoTrack
           patternTicks ==
               IF piano THEN BeatsToTicks(pianoPatterns[pianoPattern].Length)
               ELSE fauxPatternTicks(metroPatterns, metroPattern)
           patternStart == IF piano THEN pianoPatternStartTick
                           ELSE metroPatternStartTick
       IN  genLog' = [genLog EXCEPT
               !.op = "QueueRead",
               !.qp = [pc |-> "read", p |-> p,
                       old |-> IF piano THEN pianoPattern ELSE metroPattern,
                       queuedUntil |-> IF piano THEN pianoQueuedUntilTick
                                       ELSE metroQueuedUntilTick,
                       boundaryTick |-> BoundaryTick(patternStart,
                                                     patternTicks, Tick)]]
    /\ IF genLog.track = PianoTrack
       THEN /\ pianoNext' = p
            /\ UNCHANGED <<pianoPatterns, pianoPattern, pianoEditing,
                           pianoQueue, pianoQueuedUntilTick,
                           pianoPatternStartTick, pianoNextPatternTick,
                           metroVars>>
       ELSE /\ metroNext' = p
            /\ UNCHANGED <<metroPatterns, metroPattern, metroEditing,
                           metroSelected, metroRun, metroQueue,
                           metroQueuedUntilTick, metroPatternStartTick,
                           metroNextPatternTick, pianoVars>>
    /\ RaceFrame
    /\ UNCHANGED Tick

\* the end of QueuePattern: under the write lock the queue is cut at the
\* boundary when the copied queuedUntil lies past it, and the boundary is
\* stored
RaceQueueWrite ==
    /\ genLog.qp.pc = "read"
    /\ LET b == genLog.qp.boundaryTick
           cut == genLog.qp.queuedUntil > b
       IN  IF genLog.track = PianoTrack
           THEN /\ pianoNextPatternTick' = b
                /\ IF cut
                   THEN /\ pianoQueue' = SelectTickBelow(pianoQueue, b)
                        /\ pianoQueuedUntilTick' = b
                   ELSE UNCHANGED <<pianoQueue, pianoQueuedUntilTick>>
                /\ UNCHANGED <<pianoPatterns, pianoPattern, pianoNext,
                               pianoEditing, pianoPatternStartTick, metroVars>>
           ELSE /\ metroNextPatternTick' = b
                /\ IF cut
                   THEN /\ metroQueue' = SelectTickBelow(metroQueue, b)
                        /\ metroQueuedUntilTick' = b
                   ELSE UNCHANGED <<metroQueue, metroQueuedUntilTick>>
                /\ UNCHANGED <<metroPatterns, metroPattern, metroNext,
                               metroEditing, metroSelected, metroRun,
                               metroPatternStartTick, pianoVars>>
    /\ genLog' = [genLog EXCEPT
           !.op = "QueueWrite",
           !.qp = RaceIdle,
           !.req = [p |-> genLog.qp.p, boundary |-> genLog.qp.boundaryTick,
                    old |-> genLog.qp.old]]
    /\ RaceFrame
    /\ UNCHANGED <<Tick, launches>>

NextRace ==
    \/ RaceClock
    \/ RaceFillRead
    \/ RacePianoGenerate
    \/ RaceMetroGenerate
    \/ RaceFillWrite
    \/ \E p \in PatternIds : RaceQueueRead(p)
    \/ RaceQueueWrite

SpecRace == InitRace /\ [][NextRace]_vars

\* both calls have returned after exactly one QueuePattern call
RaceSettled ==
    /\ launches = 1
    /\ genLog.qp.pc = "idle"
    /\ genLog.fill.pc = "idle"

RacePattern == IF genLog.track = PianoTrack THEN pianoPattern ELSE metroPattern

RaceNextPatternTick ==
    IF genLog.track = PianoTrack THEN pianoNextPatternTick
    ELSE metroNextPatternTick

RaceQueue == IF genLog.track = PianoTrack THEN pianoQueue ELSE metroQueue

\* C33: once QueuePattern(p, atTick) and the FillUntil calls interleaved
\* with it have returned, the switch is still pending at the boundary or
\* the playing pattern is p, and the queue holds no event of the old
\* pattern at or after the boundary.
C33_SwitchNotLost ==
    RaceSettled =>
        /\ \/ RaceNextPatternTick = genLog.req.boundary
           \/ RacePattern = genLog.req.p
        /\ genLog.req.p # genLog.req.old =>
              \A i \in 1..Len(RaceQueue) :
                 RaceQueue[i].Tick >= genLog.req.boundary =>
                     RaceQueue[i].src.pat # genLog.req.old

\* the request written between the read and the write of a FillUntil is
\* gone: nothing is pending and the old pattern keeps playing
C33_LostSeen ==
    /\ RaceSettled
    /\ genLog.op = "FillWrite"
    /\ RaceNextPatternTick = -1
    /\ genLog.req.p # genLog.req.old
    /\ RacePattern = genLog.req.old

\* C34: the metropolix playing-pattern index stays within [0, NumPatterns)
\* in every reachable state: FillUntil never takes its switch while
\* state.Next is -1.
C34_MetroPatternInRange ==
    /\ metroPattern \in 0..(NumPatterns - 1)
    /\ ~genLog.panic

\* the index is -1 only after a switch taken while state.Next was -1
C34_PatternSetFromNext ==
    metroPattern = -1 => genLog.panic /\ metroNext = -1


(***************************************************************************)
(* Notes cut by a pattern-switch truncation (under SpecSwitch)             *)
(***************************************************************************)
\* every NoteOn of the queue is followed in it by a NoteOff of its note
NoHangingNote(q) ==
    \A i \in 1..Len(q) :
       q[i].Type = NoteOn =>
          \E j \in (i + 1)..Len(q) :
             q[j].Type = NoteOff /\ q[j].Note = q[i].Note

\* a QueuePattern call on track t that dropped queued events
QueuePatternTruncated(t) ==
    /\ QueuePatternCalled(t)
    /\ IF t = PianoTrack THEN Len(pianoQueue') < Len(pianoQueue)
       ELSE Len(metroQueue') < Len(metroQueue)

\* C35: whenever QueuePattern drops queued events at or after the boundary
\* on the piano roll or the metropolix, every NoteOn that stays in the
\* queue still has the NoteOff of its note queued after it.
C35_NoHangingAfterTruncation ==
    [][/\ QueuePatternTruncated(PianoTrack) => NoHangingNote(pianoQueue')
       /\ QueuePatternTruncated(MetroTrack) => NoHangingNote(metroQueue')
      ]_vars


(***************************************************************************)
(* Notes left sounding by Stop                                             *)
(*                                                                         *)
(* `sent` is kept across Stop and Play here: it is what the port has       *)
(* received so far.  The queue manager and the dispatcher are long-running *)
(* threads, so their steps are weakly fair; Play and Stop are key presses  *)
(* and need not happen.                                                    *)
(***************************************************************************)
\* Manager.Play, the port's history kept
LivePlay ==
    /\ ~playing
    /\ plays < MaxPlays
    /\ plays' = plays + 1
    /\ playing' = TRUE
    /\ Tick' = 0
    /\ ClearQueues
    /\ lastOp' = NoOp
    /\ lastCall' = Call("Play", FALSE, 0, 0)
    /\ UNCHANGED <<sent, switch, trackType, muted, edits, launches, genLog>>

\* Manager.Stop, the port's history kept: the flag is cleared and every
\* device's ClearQueue runs; nothing is sent
LiveStop ==
    /\ playing
    /\ playing' = FALSE
    /\ ClearQueues
    /\ lastOp' = NoOp
    /\ lastCall' = Call("Stop", FALSE,
                        Len(drumQueue) + Len(pianoQueue) + Len(metroQueue),
                        0)
    /\ UNCHANGED <<Tick, sent, switch, trackType, muted, edits, plays,
                   launches, genLog>>

\* a piano roll track with the clip of InitClip
InitLive == InitClip /\ Present(PianoTrack)

NextLive ==
    \/ LivePlay
    \/ LiveStop
    \/ ClockTick
    \/ FillQueues
    \/ Dispatch

SpecLive ==
    /\ InitLive
    /\ [][NextLive]_vars
    /\ WF_vars(ClockTick)
    /\ WF_vars(FillQueues)
    /\ WF_vars(Dispatch)

\* the same playback without Stop
NextLiveNoStop ==
    \/ LivePlay
    \/ ClockTick
    \/ FillQueues
    \/ Dispatch

SpecLiveNoStop ==
    /\ InitLive
    /\ [][NextLiveNoStop]_vars
    /\ WF_vars(ClockTick)
    /\ WF_vars(FillQueues)
    /\ WF_vars(Dispatch)

\* the notes the clip of InitClip plays
LiveNotes == {60}

\* the port has received a NoteOn of the note and no NoteOff of it since
Sounding(note) ==
    \E i \in 1..Len(sent) :
       /\ sent[i].Type = NoteOn
       /\ sent[i].Note = note
       /\ \A j \in (i + 1)..Len(sent) :
             ~(sent[j].Type = NoteOff /\ sent[j].Note = note)

\* the run has reached the end of what the model follows
LiveBound == Len(sent) = MaxSent \/ Tick + TicksPerStep > HorizonTick

C36_HangingSeen ==
    /\ ~playing
    /\ pianoQueue = <<>>
    /\ metroQueue = <<>>
    /\ \E note \in LiveNotes : Sounding(note)
    /\ ~LiveBound


(***************************************************************************)
(* Playback modes: FillUntil, one faux cycle per call, on patterns of one  *)
(* or two stages with pulse counts 1 or 2 in every mode                    *)
(***************************************************************************)
ModeShapes ==
    {[DefaultMetroPattern EXCEPT
          !.Length = len,
          !.Mode = mode,
          !.Stages = [st \in StageIds |->
                         [@[st] EXCEPT !.PulseCount = pulses[st]]]] :
        len \in {1, MaxStage + 1},
        mode \in {ModeForward, ModeReverse, ModePendulum, ModeRandom},
        pulses \in [StageIds -> GatePulses]}

InitModes ==
    /\ SysInit
    /\ DrumInit
    /\ PianoInit
    /\ MetroInit
    /\ trackType = [u \in TrackIds |->
                        IF u = MetroTrack THEN "metropolix" ELSE "none"]
    /\ drumPatterns = DefaultDrumPatterns
    /\ pianoPatterns = DefaultPianoPatterns
    /\ \E shape \in ModeShapes :
          metroPatterns = [DefaultMetroPatterns EXCEPT ![0] = shape]
    /\ genLog = [op |-> "fresh", n |-> 0, events |-> <<>>, visits |-> <<>>,
                 base |-> 0]

SpecModes == InitModes /\ [][NextSlide]_vars

\* the ticks GeneratePattern advances currentTick by over the stages played
RECURSIVE VisitedTicks(_, _)
VisitedTicks(pat, visits) ==
    IF visits = <<>> THEN 0
    ELSE pat.Stages[Head(visits)].PulseCount * TicksPerStep
         + VisitedTicks(pat, Tail(visits))

\* the NoteOn and NoteOff events of the last cycle lie within
\* [base, base + span]
NotesWithin(span) ==
    \A i \in 1..Len(genLog.events) :
       genLog.events[i].Type \in {NoteOn, NoteOff} =>
          /\ genLog.events[i].Tick >= genLog.base
          /\ genLog.events[i].Tick <= genLog.base + span

\* C37: in every playback mode the stages one GeneratePattern call plays
\* have pulse counts summing to the faux pattern length, the note events
\* of the cycle starting at tick b lie within [b, b + fauxPatternTicks],
\* and the filled-until tick moves on by just the ticks the cycle spans.
C37_CycleSpansFauxLength ==
    genLog.op = "FillUntil" =>
        LET pat == metroPatterns[metroPattern]
            faux == fauxPatternTicks(metroPatterns, metroPattern)
        IN  /\ VisitedTicks(pat, genLog.visits) = faux
            /\ NotesWithin(faux)
            /\ metroQueuedUntilTick
                  = genLog.base + VisitedTicks(pat, genLog.visits)

\* what holds in every mode: the notes of a cycle lie within the ticks of
\* the stages played, and the filled-until tick moves on by the faux
\* pattern length
C37_CycleSpansVisited ==
    genLog.op = "FillUntil" =>
        LET pat == metroPatterns[metroPattern]
        IN  /\ NotesWithin(VisitedTicks(pat, genLog.visits))
            /\ metroQueuedUntilTick
                  = genLog.base + fauxPatternTicks(metroPatterns, metroPattern)
            /\ pat.Mode # ModeRandom =>
                  VisitedTicks(pat, genLog.visits)
                     = fauxPatternTicks(metroPatterns, metroPattern)

\* a random cycle that played the first stage twice
C37_RandomRepeatSeen ==
    /\ genLog.op = "FillUntil"
    /\ metroPatterns[metroPattern].Mode = ModeRandom
    /\ genLog.visits = <<0, 0>>
    /\ VisitedTicks(metroPatterns[metroPattern], genLog.visits)
          > fauxPatternTicks(metroPatterns, metroPattern)


(***************************************************************************)
(* Edits during playback: regeneratePatternInQueue and the drum queue      *)
(* rebuild against the events the dispatcher has popped                    *)
(***************************************************************************)
NextRepop ==
    \/ Play
    \/ ClockTick
    \/ FillQueues
    \/ Dispatch
    \/ RegenCall
    \/ DrumEdit

SpecRepop == InitClip /\ [][NextRepop]_vars

\* the tick of the last event the dispatcher popped
LastPoppedTick == sent[Len(sent)].Tick

\* a step of an edit that rebuilt the queue of the track
QueueRebuilt ==
    /\ edits' = edits + 1
    /\ sent # <<>>

\* C38: regeneratePatternInQueue and the drum queue rebuild put no event
\* into the queue whose tick is below the tick of the last event popped
\* from the device: the events below that tick are no more than before.
C38_PoppedNotReinserted ==
    [][QueueRebuilt =>
          \A t \in TrackIds :
             Len(SelectTickBelow(QueueOf(t)', LastPoppedTick))
                <= Len(SelectTickBelow(QueueOf(t), LastPoppedTick))
      ]_vars


(***************************************************************************)
(* The dispatcher's peek, sleep and pop as separate steps                  *)
(*                                                                         *)
(* The dispatcher peeks the earliest head event, sleeps until its tick     *)
(* (an edit or a truncating QueuePattern signals it to peek again), and on *)
(* waking pops the head of the owning device with PopNextEvent.  lastCall  *)
(* holds the dispatcher's position and the event it peeked.                *)
(***************************************************************************)
NoEvent == [Tick |-> -1, Type |-> "none"]

\* an edit or a QueuePattern has signalled since the peek
Interrupted == edits # lastCall.edits \/ launches # lastCall.launches

PeekFrame ==
    UNCHANGED <<playing, Tick, lastOp, switch, trackType, muted, edits, plays,
                launches, genLog>>

\* the peek scan: PeekNextEvent on every device, the earliest head kept
PeekNext ==
    /\ playing
    /\ lastCall.op \notin {"Peek", "Wake"}
    /\ \E t \in TrackIds :
          /\ IsEarliest(t)
          /\ lastCall' = [op |-> "Peek", track |-> t, event |-> QueueOf(t)[1],
                          edits |-> edits, launches |-> launches]
    /\ PeekFrame
    /\ UNCHANGED <<sent, drumVars, pianoVars, metroVars>>

\* the sleep is interrupted: the dispatcher goes back to the peek scan
PeekAgain ==
    /\ lastCall.op = "Peek"
    /\ Interrupted
    /\ lastCall' = [op |-> "Interrupted"]
    /\ PeekFrame
    /\ UNCHANGED <<sent, drumVars, pianoVars, metroVars>>

\* the sleep ends at the tick of the peeked event
WakeUp ==
    /\ lastCall.op = "Peek"
    /\ ~Interrupted
    /\ lastCall.event.Tick <= Tick
    /\ lastCall' = [lastCall EXCEPT !.op = "Wake"]
    /\ PeekFrame
    /\ UNCHANGED <<sent, drumVars, pianoVars, metroVars>>

\* PopNextEvent on the owning device: whatever is at the head now is
\* removed and sent
PopPeeked ==
    /\ lastCall.op = "Wake"
    /\ Len(sent) < MaxSent
    /\ LET t == lastCall.track
           q == QueueOf(t)
           popped == IF q = <<>> THEN NoEvent ELSE Head(q)
       IN  /\ sent' = IF q = <<>> THEN sent ELSE Append(sent, Head(q))
           /\ drumQueue' = IF t = DrumTrack /\ q # <<>> THEN Tail(drumQueue)
                           ELSE drumQueue
           /\ pianoQueue' = IF t = PianoTrack /\ q # <<>> THEN Tail(pianoQueue)
                            ELSE pianoQueue
           /\ metroQueue' = IF t = MetroTrack /\ q # <<>> THEN Tail(metroQueue)
                            ELSE metroQueue
           /\ lastCall' = [op |-> "Pop", track |-> t,
                           peeked |-> lastCall.event, popped |-> popped,
                           tick |-> Tick]
    /\ PeekFrame
    /\ UNCHANGED <<drumPatterns, drumPlaying, drumNext, drumEditing, schedule,
                   patternDirty, pianoPatterns, pianoPattern, pianoNext,
                   pianoEditing, pianoQueuedUntilTick, pianoPatternStartTick,
                   pianoNextPatternTick, metroPatterns, metroPattern,
                   metroNext, metroEditing, metroSelected, metroRun,
                   metroQueuedUntilTick, metroPatternStartTick,
                   metroNextPatternTick>>

NextPeek ==
    \/ Play
    \/ ClockTick
    \/ FillQueues
    \/ PeekNext
    \/ PeekAgain
    \/ WakeUp
    \/ PopPeeked
    \/ DrumEdit
    \/ RegenCall
    \/ \E t \in {PianoTrack, MetroTrack}, p \in PatternIds :
          SwitchQueue(t, p, 0)

\* one track; the drum clip has the first two steps of lane 0 active
InitPeek ==
    /\ Init
    /\ Present(DrumTrack) =>
          drumPatterns[0] = DrumPatternOf(MaxLaneLen, {<<0, 0>>, <<0, 1>>})
    /\ Present(PianoTrack) =>
          pianoPatterns[0] = [Notes |-> <<PianoNote(0, BeatDenom \div 4)>>,
                              Length |-> BeatDenom]
    /\ Present(MetroTrack) => metroPatterns[0] = DefaultMetroPattern

SpecPeek == InitPeek /\ [][NextPeek]_vars

\* C39: the event the dispatcher pops after its sleep is the event it
\* peeked, or one whose tick is not later than the current tick.
C39_NeverEarly ==
    lastCall.op = "Pop" =>
        \/ lastCall.popped = lastCall.peeked
        \/ lastCall.popped.Tick <= lastCall.tick

\* what holds: the dispatcher wakes no earlier than the tick of the event
\* it peeked
C39_WakesOnTime ==
    lastCall.op \in {"Wake", "Pop"} =>
        (IF lastCall.op = "Wake" THEN lastCall.event.Tick
         ELSE lastCall.peeked.Tick) <= Tick

\* an event was sent before its tick
C39_EarlySeen ==
    /\ lastCall.op = "Pop"
    /\ lastCall.popped.Tick > lastCall.tick


(***************************************************************************)
(* Manager.Play, Manager.Stop and the tickLoop goroutines                  *)
(*                                                                         *)
(* genLog holds the channels made by Play (numbered in the order they are  *)
(* made), the one m.stopChan refers to, the closed ones, and for each      *)
(* tickLoop goroutine its position, the value of m.stopChan at its last    *)
(* m.mu.Lock, and the channel its select waits on.  tickLoop reads         *)
(* m.stopChan without the lock, so the read yields any value written since *)
(* the goroutine last held the lock.                                       *)
(***************************************************************************)
MaxLoops == 3

Loops == 1..MaxLoops

InitLoops ==
    /\ SysInit
    /\ DrumInit
    /\ PianoInit
    /\ MetroInit
    /\ trackType = [u \in TrackIds |-> "none"]
    /\ drumPatterns = DefaultDrumPatterns
    /\ pianoPatterns = DefaultPianoPatterns
    /\ metroPatterns = DefaultMetroPatterns
    /\ genLog = [op |-> "none", stopChan |-> 0, closed |-> {},
                 loops |-> [l \in Loops |->
                               [pc |-> "none", seen |-> 0, ch |-> 0,
                                stopped |-> FALSE]]]

LoopsFrame ==
    UNCHANGED <<Tick, sent, lastOp, switch, trackType, muted, lastCall, edits,
                launches, drumVars, pianoVars, metroVars>>

Running(l) == genLog.loops[l].pc \notin {"none", "done"}

\* Manager.Play: a new stop channel and a new tickLoop goroutine
LoopPlay ==
    /\ ~playing
    /\ plays < MaxLoops
    /\ plays' = plays + 1
    /\ playing' = TRUE
    /\ genLog' = [genLog EXCEPT !.op = "Play",
                                !.stopChan = plays + 1,
                                !.loops[plays + 1].pc = "start"]
    /\ LoopsFrame

\* Manager.Stop: the flag is cleared and the current stop channel closed;
\* the goroutines running now are the ones this Stop is meant to end
LoopStop ==
    /\ playing
    /\ playing' = FALSE
    /\ genLog' = [genLog EXCEPT
           !.op = "Stop",
           !.closed = @ \cup {genLog.stopChan},
           !.loops = [l \in Loops |->
                         IF Running(l) THEN [@[l] EXCEPT !.stopped = TRUE]
                         ELSE @[l]]]
    /\ UNCHANGED plays
    /\ LoopsFrame

\* tickLoop up to its for loop: the tempo is read under m.mu
LoopStart(l) ==
    /\ genLog.loops[l].pc = "start"
    /\ genLog' = [genLog EXCEPT !.op = "start",
                                !.loops[l].pc = "top",
                                !.loops[l].seen = genLog.stopChan]
    /\ UNCHANGED <<playing, plays>>
    /\ LoopsFrame

\* the select evaluates m.stopChan without the lock and waits
LoopSelect(l) ==
    /\ genLog.loops[l].pc = "top"
    /\ \E ch \in genLog.loops[l].seen..genLog.stopChan :
          genLog' = [genLog EXCEPT !.op = "select",
                                   !.loops[l].pc = "select",
                                   !.loops[l].ch = ch]
    /\ UNCHANGED <<playing, plays>>
    /\ LoopsFrame

\* case <-m.stopChan: the channel the select waits on is closed
LoopStopCase(l) ==
    /\ genLog.loops[l].pc = "select"
    /\ genLog.loops[l].ch \in genLog.closed
    /\ genLog' = [genLog EXCEPT !.op = "stopped", !.loops[l].pc = "done"]
    /\ UNCHANGED <<playing, plays>>
    /\ LoopsFrame

\* case <-ticker.C: under m.mu the loop returns if S.Playing is false,
\* else it runs the step and goes round
LoopTick(l) ==
    /\ genLog.loops[l].pc = "select"
    /\ genLog' = IF ~playing
                 THEN [genLog EXCEPT !.op = "tick", !.loops[l].pc = "done"]
                 ELSE [genLog EXCEPT !.op = "tick",
                                     !.loops[l].pc = "top",
                                     !.loops[l].seen = genLog.stopChan]
    /\ UNCHANGED <<playing, plays>>
    /\ LoopsFrame

NextLoops ==
    \/ LoopPlay
    \/ LoopStop
    \/ \E l \in Loops : LoopStart(l)
    \/ \E l \in Loops : LoopSelect(l)
    \/ \E l \in Loops : LoopStopCase(l)
    \/ \E l \in Loops : LoopTick(l)

\* the goroutines are scheduled and the ticker fires; a select with both
\* cases ready picks one at random, so the stop case is not passed over
\* for ever
SpecLoops ==
    /\ InitLoops
    /\ [][NextLoops]_vars
    /\ \A l \in Loops :
          /\ WF_vars(LoopStart(l))
          /\ WF_vars(LoopSelect(l))
          /\ WF_vars(LoopTick(l))
          /\ SF_vars(LoopStopCase(l))

\* C40: a tickLoop started by an earlier Play always terminates after the
\* following Stop, also when the next Play comes before the loop has seen
\* the stop signal, so that no two loops keep running.
C40_LoopEndsAfterStop ==
    \A l \in Loops :
       [](genLog.loops[l].stopped => <>(genLog.loops[l].pc = "done"))

\* two tickLoop goroutines go round on the same open stop channel
C40_TwoLoopsSeen ==
    /\ playing
    /\ \E l1, l2 \in Loops :
          /\ l1 < l2
          /\ genLog.loops[l1].stopped
          /\ genLog.loops[l1].pc = "top"
          /\ genLog.loops[l2].pc = "top"
          /\ genLog.loops[l1].seen = genLog.stopChan
          /\ genLog.loops[l2].seen = genLog.stopChan

====
